---- MODULE Spec2Model ----
(***************************************************************************)
(* faigz: a reference-counted shared FASTA/FASTQ index (faidx_meta_t) and  *)
(* per-thread readers (faidx_reader_t), src/faigz.h.                       *)
(*                                                                         *)
(* Two parts share the state:                                              *)
(*   - the data path: faidx_adjust_position and fai_retrieve, computed     *)
(*     the way the C code computes them, over a file whose bytes are       *)
(*     labelled by their own offsets;                                      *)
(*   - the lifetime protocol: faidx_meta_ref, faidx_meta_destroy,          *)
(*     faidx_reader_create, faidx_reader_destroy, one action per           *)
(*     statement group between two synchronisation points.                 *)
(***************************************************************************)
EXTENDS Integers, Sequences, FiniteSets, TLC

\* ------------------------------------------------------------------ bounds
NThreads == 2      \* threads using the index
MaxHeld  == 1      \* explicit references (load + faidx_meta_ref) one thread holds
MaxLen   == 5      \* longest sequence (bases)
MaxBlen  == 2      \* widest line payload (line_blen); 0 is the bad geometry
MaxEol   == 2      \* longest line terminator (line_len - line_blen)
Margin   == 1      \* how far outside [0, len] begin and end are drawn
HdrLen   == 3      \* bytes of the header line in front of the payload
MaxSeq   == 3      \* most sequences in one index
PosBits  == 6      \* width of hts_pos_t and uint64_t, scaled down
SizeBits == 4      \* width of size_t, scaled down: the build where size_t is
                   \* narrower than hts_pos_t
BlockLen  == 3     \* uncompressed bytes in a full BGZF block
CBlockLen == 2     \* bytes of the compressed file a block takes

Threads == 1..NThreads
Readers == Threads     \* thread t's reader is reader t

FAI_FASTA == "FAI_FASTA"
FAI_FASTQ == "FAI_FASTQ"

\* Buffer cells hold file offsets (>= 0); these two mark the other contents.
NUL    == 0 - 1    \* the terminating '\0'
UNINIT == 0 - 2    \* malloc'ed and never written

KnownName   == "chr1"
UnknownName == "chrX"
Names == {KnownName, UnknownName}

VARIABLES
  meta,        \* the immutable fields of faidx_meta_t: n, name, hash, format,
               \* is_bgzf, bgzf_idx
  fsize,       \* size in bytes of the data file behind fasta_path
  ref_count,   \* faidx_meta_t.ref_count
  mutex,       \* faidx_meta_t.mutex: 0 when unlocked, else the holding thread
  nfree,       \* teardowns of faidx_meta_destroy run so far (2: more than one)
  uaf,         \* some thread has touched the index storage after its teardown
  pc,          \* per thread: the statement it is about to execute
  ret,         \* per thread: where the inner ref/destroy call returns to
  should_free, \* per thread: the local should_free of faidx_meta_destroy
  held,        \* per thread: explicit references it holds (load, faidx_meta_ref)
  reader,      \* per thread: its reader, none / alloc / open / closing
  pos,         \* per decoder: its position in the data file
  last,        \* the last fetch or query call and what it returned
  ld,          \* faidx_meta_load: not called / ok / failed, and the file
               \* handles it left open
  call,        \* per reader: the fetch it is inside, between seek and reads
  dec,         \* per reader: its decoder, the handle and the idx pointer
  tbl          \* times the block-offset table storage was freed (2: more)

vars == <<meta, fsize, ref_count, mutex, nfree, uaf, pc, ret, should_free, held,
          reader, pos, last, ld, call, dec, tbl>>

lifeVars  == <<ref_count, mutex, nfree, uaf, pc, ret, should_free, held, reader>>

Min(a, b) == IF a < b THEN a ELSE b
Max(a, b) == IF a < b THEN b ELSE a

\* ------------------------------------------------------- the index and file

\* Bytes the wrapped payload of one record takes on disk, terminators included.
DataBytes(len, blen, llen) ==
  IF blen = 0 THEN 0
  ELSE (len \div blen) * llen
       + (IF len % blen > 0 THEN (len % blen) + (llen - blen) ELSE 0)

\* The faidx1_t of the only record of a file: header line, payload lines and,
\* for FASTQ, the "+\n" line and the quality lines in the same wrapping.
Descriptor(len, blen, eol, fmt) ==
  [id |-> 0, line_len |-> blen + eol, line_blen |-> blen, len |-> len,
   seq_offset |-> HdrLen,
   qual_offset |-> IF fmt = FAI_FASTQ
                     THEN HdrLen + DataBytes(len, blen, blen + eol) + 2
                     ELSE 0]

FullSize(d, fmt) ==
  IF fmt = FAI_FASTQ
    THEN d.qual_offset + DataBytes(d.len, d.line_blen, d.line_len)
    ELSE d.seq_offset + DataBytes(d.len, d.line_blen, d.line_len)

MetaOf(d, fmt) ==
  [n |-> 1, name |-> <<KnownName>>, hash |-> (KnownName :> d), format |-> fmt,
   is_bgzf |-> FALSE, bgzf_idx |-> "NULL"]

\* kh_get(s, meta->hash, c_name) != kh_end(meta->hash)
InHash(m, c_name) == c_name \in DOMAIN m.hash

\* File offset of payload byte k of a record laid out from base offset off.
PhysOff(val, off, k) ==
  off + (k \div val.line_blen) * val.line_len + (k % val.line_blen)

\* ------------------------------------------------------------------ the load

\* What fai_load3_format hands to faidx_meta_load for the names nms (distinct,
\* in file order) of a FASTA file wrapped at MaxBlen with one-byte terminators:
\* the names, and under each name its faidx1_t with id = position in the file.
NamePool == <<"a", "b", "c", "d", "e">>
LenOf(nm) == CHOOSE i \in 1..Len(NamePool) : NamePool[i] = nm

RECURSIVE OffsetOf(_, _)
OffsetOf(nms, i) ==
  IF i = 1 THEN HdrLen
  ELSE OffsetOf(nms, i - 1)
         + DataBytes(LenOf(nms[i - 1]), MaxBlen, MaxBlen + 1) + HdrLen

FaiOf(nms, compressed) ==
  [n |-> Len(nms), name |-> nms,
   hash |-> [nm \in {nms[i] : i \in 1..Len(nms)} |->
               LET i == CHOOSE k \in 1..Len(nms) : nms[k] = nm
               IN  [id |-> i - 1, line_len |-> MaxBlen + 1,
                    line_blen |-> MaxBlen, len |-> LenOf(nm),
                    seq_offset |-> OffsetOf(nms, i), qual_offset |-> 0]],
   format |-> FAI_FASTA, compressed |-> compressed]

\* fai = fai_load3_format(...) on a .fai whose records carry the names recs, in
\* file order. The library keeps the first record of a name and ignores a later
\* record of the same name (it logs a warning and goes on): n counts the
\* records kept, the ids are their positions, the offsets those of the file.
fai_load3_format(recs, compressed) ==
  LET Keep(i) == \A j \in 1..(i - 1) : recs[j] # recs[i]
      idx == SelectSeq([i \in 1..Len(recs) |-> i], Keep)
      nms == [k \in 1..Len(idx) |-> recs[idx[k]]]
  IN  [n |-> Len(nms), name |-> nms,
       hash |-> [nm \in {nms[k] : k \in 1..Len(nms)} |->
                   LET k == CHOOSE k \in 1..Len(nms) : nms[k] = nm
                   IN  [id |-> k - 1, line_len |-> MaxBlen + 1,
                        line_blen |-> MaxBlen, len |-> LenOf(nm),
                        seq_offset |-> OffsetOf(recs, idx[k]),
                        qual_offset |-> 0]],
       format |-> FAI_FASTA, compressed |-> compressed]

\* The index before faidx_meta_load has built it, and after a failed load.
NoMeta ==
  [n |-> 0, name |-> <<>>, hash |-> <<>>, format |-> FAI_FASTA,
   is_bgzf |-> FALSE, bgzf_idx |-> "NULL"]

\* the "Create and populate hash table" loop: kh_put of meta->name[i], and the
\* value copied from fai->hash when the key was absent
RECURSIVE PutNames(_, _, _)
PutNames(h, fai, i) ==
  IF i > fai.n THEN h
  ELSE IF fai.name[i] \in DOMAIN h THEN PutNames(h, fai, i + 1)
  ELSE PutNames([nm \in DOMAIN h \cup {fai.name[i]} |->
                   IF nm \in DOMAIN h THEN h[nm] ELSE fai.hash[nm]],
                fai, i + 1)

\* File handles are counted: hopen and bgzf_open open one, hclose, bgzf_close
\* and fai_destroy (which closes the decoder of the faidx_t) close one.
hopen(handles)  == handles + 1

\* bug: the handle is never closed
hclose_skipped(handles) == handles

hclose(handles) == handles - 1

\* bgzf_index_load_direct(fngzi): the table, or NULL when the file cannot be
\* opened ("absent"), or the allocation fails or the file is short ("bad");
\* the hFILE it opened is closed on every path. handles is the number of open
\* handles on entry.
bgzf_index_load_direct(gzi, handles) ==
  IF gzi = "absent" THEN [idx |-> "NULL", handles |-> handles]
  ELSE IF gzi = "bad" THEN [idx |-> "NULL", handles |-> hclose(hopen(handles))]
  ELSE [idx |-> "table", handles |-> hclose(hopen(handles))]

\* The storage faidx_meta_load works with, each piece named <<kind, i>>: the
\* two path strings (fai_kstr, gzi_kstr), the faidx_t (fai), the index (meta),
\* its initialised mutex, the name array (name), the copy of name i (name_i),
\* the hash table and the three path copies.
NoHeap == [leaked |-> {}, wild |-> {}, twice |-> {}]

\* the steps of faidx_meta_load that can fail, in the order of the code: the
\* second ksprintf, fai_load3_format, the calloc, pthread_mutex_init, the
\* malloc of the name array, a kstrdup of a name, kh_init, the copy of the
\* .fai path (the other two path copies succeed)
LoadSteps ==
  <<"kstr", "fai", "calloc", "mutex", "names", "name", "hash", "paths">>
StepNo(step) == CHOOSE i \in 1..Len(LoadSteps) : LoadSteps[i] = step
Passed(src, step) == src.fail = "none" \/ StepNo(step) < StepNo(src.fail)

\* the names copied when the load stops: all, or those before the failing copy
Copied(src) ==
  IF Passed(src, "name") THEN src.fai.n
  ELSE IF src.fail = "name" THEN src.at - 1 ELSE 0

\* what the load has allocated or initialised when it reaches "fail:"
Acquired(src) ==
  {<<"fai_kstr", 0>>}
    \cup (IF Passed(src, "kstr") THEN {<<"gzi_kstr", 0>>} ELSE {})
    \cup (IF Passed(src, "fai") THEN {<<"fai", 0>>} ELSE {})
    \cup (IF Passed(src, "calloc") THEN {<<"meta", 0>>} ELSE {})
    \cup (IF Passed(src, "mutex") THEN {<<"mutex", 0>>} ELSE {})
    \cup (IF Passed(src, "names") THEN {<<"name", 0>>} ELSE {})
    \cup {<<"name_i", i>> : i \in 1..Copied(src)}
    \cup (IF Passed(src, "hash") THEN {<<"hash", 0>>} ELSE {})
    \cup (IF Passed(src, "hash")
            THEN {<<"fasta_path", 0>>, <<"gzi_path", 0>>} ELSE {})
    \cup (IF Passed(src, "paths") THEN {<<"fai_path", 0>>} ELSE {})

\* the "fail:" block: what it frees or destroys, in order. meta->n is the n of
\* the faidx_t once the mutex is initialised; slot i of the malloc'ed name
\* array holds the copy, NULL for the copy that failed, and for the slots
\* never written whatever the allocation held (src.junk: not NULL).
FailPath(src) ==
  LET n == IF Passed(src, "mutex") THEN src.fai.n ELSE 0
      Opt(c, x) == IF c THEN <<x>> ELSE <<>>
      slot(i) == IF i <= Copied(src) THEN <<"name_i", i>>
                 ELSE IF src.fail = "name" /\ i = src.at THEN <<"NULL", 0>>
                 ELSE IF src.junk THEN <<"junk", i>> ELSE <<"NULL", 0>>
      NotNull(x) == x # <<"NULL", 0>>
  IN  (IF Passed(src, "calloc")
         THEN Opt(Passed(src, "hash"), <<"hash", 0>>)
                \o (IF Passed(src, "names")
                      THEN SelectSeq([i \in 1..n |-> slot(i)], NotNull)
                             \o <<<<"name", 0>>>>
                      ELSE <<>>)
                \o Opt(Passed(src, "hash"), <<"fasta_path", 0>>)
                \o Opt(Passed(src, "paths"), <<"fai_path", 0>>)
                \o Opt(Passed(src, "hash"), <<"gzi_path", 0>>)
                \o <<<<"mutex", 0>>, <<"meta", 0>>>>
         ELSE <<>>)
        \o <<<<"fai_kstr", 0>>>>
        \o Opt(Passed(src, "kstr"), <<"gzi_kstr", 0>>)
        \o Opt(Passed(src, "fai"), <<"fai", 0>>)

\* what a failed load leaves: storage acquired and not released, things
\* released that were never acquired, things released twice
HeapAfterFail(src) ==
  LET out == FailPath(src)
      rel == {out[i] : i \in 1..Len(out)}
  IN  [leaked |-> Acquired(src) \ rel,
       wild   |-> rel \ Acquired(src),
       twice  |-> {out[i] : i \in {j \in 1..Len(out) :
                                      \E k \in 1..Len(out) :
                                        k # j /\ out[k] = out[j]}}]

\* faidx_meta_load(filename, format, flags). src is what the call finds: the
\* faidx_t of fai_load3_format (src.fai), the step that fails (src.fail, and
\* src.at for the name copy that fails), what freshly allocated storage holds
\* (src.junk), and the state of the .gzi file when faidx_meta_load looks at it
\* (src.gzi). The result: the pointer returned (ok), the index built,
\* ref_count, the file handles still open at the return, and the storage.
faidx_meta_load(src) ==
  IF src.fail \in {"kstr", "fai"}
    THEN [ok |-> FALSE, meta |-> NoMeta, ref_count |-> 0, handles |-> 0,
          heap |-> HeapAfterFail(src)]
  ELSE IF src.fail # "none"
    \* goto fail: meta torn down, fai_destroy(fai)
    THEN [ok |-> FALSE, meta |-> NoMeta, ref_count |-> 0,
          handles |-> hclose(hopen(0)), heap |-> HeapAfterFail(src)]
  ELSE
    LET fai     == src.fai
        is_bgzf == fai.compressed
        \* hopen(fngzi) "just checking existence", hclose, then the load
        gz      == IF ~is_bgzf THEN [idx |-> "NULL", handles |-> hopen(0)]
                   ELSE IF src.gzi = "absent"
                     THEN [idx |-> "NULL", handles |-> hopen(0)]
                   ELSE bgzf_index_load_direct(src.gzi,
                                               hclose(hopen(hopen(0))))
    \* "Clean up" and return meta, whatever the table load gave
    IN  [ok |-> TRUE,
         meta |-> [n |-> fai.n,
                   name |-> [i \in 1..fai.n |-> fai.name[i]],
                   hash |-> PutNames(<<>>, fai, 1),
                   format |-> fai.format,
                   is_bgzf |-> is_bgzf, bgzf_idx |-> gz.idx],
         ref_count |-> 1,
         \* fai_destroy(fai)
         handles |-> hclose(gz.handles),
         heap |-> NoHeap]

\* ----------------------------------------------------------- the query calls
\* A pointer is <<>> when NULL and <<x>> when it points at x.

\* faidx_meta_nseq(meta)
faidx_meta_nseq(mp) == IF mp # <<>> THEN mp[1].n ELSE 0

\* bug: the bound check is off by one (i <= meta->n, i > 0)
faidx_meta_iseq_off_by_one(mp, i) ==
  IF mp # <<>> /\ i > 0 /\ i <= mp[1].n THEN <<mp[1].name[i]>> ELSE <<>>

\* faidx_meta_iseq(meta, i)
faidx_meta_iseq(mp, i) ==
  IF mp # <<>> /\ i >= 0 /\ i < mp[1].n THEN <<mp[1].name[i + 1]>> ELSE <<>>

\* faidx_meta_seq_len(meta, seq)
faidx_meta_seq_len(mp, seq) ==
  IF mp = <<>> \/ seq = <<>> THEN 0 - 1
  ELSE IF ~InHash(mp[1], seq[1]) THEN 0 - 1
  ELSE mp[1].hash[seq[1]].len

\* faidx_meta_has_seq(meta, seq)
faidx_meta_has_seq(mp, seq) ==
  IF mp = <<>> \/ seq = <<>> THEN 0
  ELSE IF InHash(mp[1], seq[1]) THEN 1 ELSE 0

\* fai_name2id(v, ref)
fai_name2id(m, ref) == IF ~InHash(m, ref) THEN 0 - 1 ELSE m.hash[ref].id

\* Region text is a sequence of one-character strings.
Digits == <<"0", "1", "2", "3", "4", "5", "6", "7", "8", "9">>
IsDigit(c) == \E i \in 1..Len(Digits) : Digits[i] = c
DigitVal(c) == (CHOOSE i \in 1..Len(Digits) : Digits[i] = c) - 1

\* the largest hts_pos_t
HTS_POS_MAX == 2^(PosBits - 1) - 1

\* hts_parse_decimal on the characters of s from index i on: the value of the
\* leading digits (0 when there is none) and the index after them
RECURSIVE hts_parse_decimal(_, _, _)
hts_parse_decimal(s, i, acc) ==
  IF i <= Len(s) /\ IsDigit(s[i])
    THEN hts_parse_decimal(s, i + 1, 10 * acc + DigitVal(s[i]))
    ELSE [val |-> acc, next |-> i]

\* hts_parse_region(s, tid, beg, end, fai_name2id, meta, flags) for the texts
\* name, name:begin, name:begin- and name:begin-end with begin >= 1. It sees
\* the index through fai_name2id alone: the name before the colon gives tid,
\* begin - 1 gives beg, the number after the dash gives end, HTS_POS_MAX when
\* it is left out; NULL for an unknown name and for beg >= end.
hts_parse_region(s, m) ==
  LET colons == {i \in 1..Len(s) : s[i] = ":"}
      getid(nm) == IF Len(nm) = 1 THEN fai_name2id(m, nm[1]) ELSE 0 - 1
      failed(tid) == [ok |-> FALSE, tid |-> tid, beg |-> 0, end |-> 0]
  IN  IF colons = {}
        THEN IF getid(s) >= 0
               THEN [ok |-> TRUE, tid |-> getid(s), beg |-> 0,
                     end |-> HTS_POS_MAX]
               ELSE failed(getid(s))
        ELSE
          LET colon == CHOOSE i \in colons : \A j \in colons : j <= i
              tid   == getid(SubSeq(s, 1, colon - 1))
              b     == hts_parse_decimal(s, colon + 1, 0)
              beg   == b.val - 1
              e     == hts_parse_decimal(s, b.next + 1, 0)
              end   == IF b.next > Len(s) THEN HTS_POS_MAX
                       ELSE IF e.val = 0 THEN HTS_POS_MAX ELSE e.val
          IN  IF tid < 0 THEN failed(tid)
              ELSE IF beg < 0 THEN failed(tid)
              ELSE IF b.next <= Len(s) /\ s[b.next] # "-" THEN failed(tid)
              ELSE IF e.next <= Len(s) THEN failed(tid)
              ELSE IF beg >= end THEN failed(tid)
              ELSE [ok |-> TRUE, tid |-> tid, beg |-> beg, end |-> end]

\* faidx_meta_parse_region(meta, s, tid, beg, end, flags)
faidx_meta_parse_region(m, s) == hts_parse_region(s, m)

\* ------------------------------------------------------------ the data path

\* the largest size_t, and the number of values of uint64_t
SIZE_MAX == 2^SizeBits - 1
PosRange == 2^PosBits

\* bug: the size of the range is not checked
SizeOverflowUnchecked(beg, end) == FALSE

\* (uint64_t)end - (uint64_t)beg >= SIZE_MAX - 2, the difference taken in
\* unsigned arithmetic of the width of hts_pos_t
SizeOverflow(beg, end) == ((end - beg) % PosRange) >= SIZE_MAX - 2

\* bgzf_read(fp, data, n) at decoder position p of a file of fsz bytes: the
\* bytes delivered, each labelled by its offset; fewer than n at end of file.
\* The length is a size_t: a negative n arrives as a huge one.
BgzfRead(fsz, p, n) ==
  LET length == n % (SIZE_MAX + 1)
      got == IF length = 0 \/ p >= fsz THEN 0 ELSE Min(length, fsz - p)
  IN  [i \in 1..got |-> p + i - 1]

\* memcpy of data into buf at 0-based index at; cells beyond the allocation are
\* not part of buf and the overrun is reported.
Store(buf, at, data) ==
  [i \in 1..Len(buf) |->
     IF i > at /\ i <= at + Len(data) THEN data[i - at] ELSE buf[i]]

Overrun(buf, at, data) == Len(data) > 0 /\ (at < 0 \/ at + Len(data) > Len(buf))

RetrieveFail(p, ops) ==
  [ptr |-> "NULL", len |-> 0 - 1, buf |-> <<>>, pos |-> p, ops |-> ops,
   oob |-> FALSE]

\* bug: the terminating '\0' is not written
RetrieveOkUnterminated(buf, len, p, ops, oob) ==
  [ptr |-> "buf", len |-> len,
   buf |-> [i \in 1..Len(buf) |-> IF buf[i] = NUL THEN UNINIT ELSE buf[i]],
   pos |-> p, ops |-> ops, oob |-> oob]

\* for a successful return: buf is the whole allocation
RetrieveOk(buf, len, p, ops, oob) ==
  [ptr |-> "buf", len |-> len, buf |-> buf, pos |-> p, ops |-> ops, oob |-> oob]

\* bug: the "Read complete lines" loop does not look at what bgzf_read returned
RECURSIVE ReadLinesUnchecked(_, _, _, _, _, _, _, _)
ReadLinesUnchecked(val, fsz, buf, s, remaining, p, ops, oob) ==
  IF remaining > val.line_blen
    THEN LET d == BgzfRead(fsz, p, val.line_len)
         IN  ReadLinesUnchecked(val, fsz, Store(buf, s, d), s + val.line_blen,
                                remaining - val.line_blen, p + Len(d), ops + 1,
                                oob \/ Overrun(buf, s, d))
    ELSE IF remaining > 0
      THEN LET d == BgzfRead(fsz, p, remaining)
           IN  IF Len(d) < remaining
                 THEN RetrieveFail(p + Len(d), ops + 1)
                 ELSE [ptr |-> "buf", len |-> 0,
                       buf |-> Store(Store(buf, s, d), s + remaining, <<NUL>>),
                       pos |-> p + Len(d), ops |-> ops + 1,
                       oob |-> oob \/ Overrun(buf, s, d)
                                   \/ Overrun(buf, s + remaining, <<NUL>>)]
      ELSE [ptr |-> "buf", len |-> 0, buf |-> Store(buf, s, <<NUL>>),
            pos |-> p, ops |-> ops, oob |-> oob \/ Overrun(buf, s, <<NUL>>)]

\* The "Read complete lines" loop, the final partial line and the terminating
\* NUL of fai_retrieve. s is the 0-based write index into buf.
RECURSIVE ReadLines(_, _, _, _, _, _, _, _)
ReadLines(val, fsz, buf, s, remaining, p, ops, oob) ==
  IF remaining > val.line_blen
    THEN LET d == BgzfRead(fsz, p, val.line_len)
         IN  IF Len(d) < val.line_len
               THEN [RetrieveFail(p + Len(d), ops + 1)
                       EXCEPT !.oob = oob \/ Overrun(buf, s, d)]
               ELSE ReadLines(val, fsz, Store(buf, s, d), s + val.line_blen,
                              remaining - val.line_blen, p + Len(d), ops + 1,
                              oob \/ Overrun(buf, s, d))
    ELSE IF remaining > 0
      THEN LET d == BgzfRead(fsz, p, remaining)
           IN  IF Len(d) < remaining
                 THEN [RetrieveFail(p + Len(d), ops + 1)
                         EXCEPT !.oob = oob \/ Overrun(buf, s, d)]
                 ELSE [ptr |-> "buf", len |-> 0,
                       buf |-> Store(Store(buf, s, d), s + remaining, <<NUL>>),
                       pos |-> p + Len(d), ops |-> ops + 1,
                       oob |-> oob \/ Overrun(buf, s, d)
                                   \/ Overrun(buf, s + remaining, <<NUL>>)]
      ELSE [ptr |-> "buf", len |-> 0, buf |-> Store(buf, s, <<NUL>>),
            pos |-> p, ops |-> ops, oob |-> oob \/ Overrun(buf, s, <<NUL>>)]

\* bug: the seek ignores the line terminators
SeekTargetUnwrapped(val, offset, beg) == offset + beg

\* The position handed to bgzf_useek:
\* offset + beg / val->line_blen * val->line_len + beg % val->line_blen
SeekTarget(val, offset, beg) ==
  offset + (beg \div val.line_blen) * val.line_len + (beg % val.line_blen)

\* fai_retrieve up to and including the malloc: the two checks, bgzf_useek and
\* the allocation. done says that the call has returned (with res); otherwise
\* the decoder stands at pos and the reads follow.
fai_retrieve_seek(p, val, offset, beg, end, env) ==
  IF SizeOverflow(beg, end)
    THEN [done |-> TRUE, pos |-> p, res |-> RetrieveFail(p, 0)]
  ELSE IF val.line_blen <= 0
    THEN [done |-> TRUE, pos |-> p, res |-> RetrieveFail(p, 0)]
  ELSE
    LET target == SeekTarget(val, offset, beg)
    IN
    IF env.seek_fail
      THEN [done |-> TRUE, pos |-> p, res |-> RetrieveFail(p, 1)]
    ELSE IF env.alloc_fail
      THEN [done |-> TRUE, pos |-> target, res |-> RetrieveFail(target, 1)]
    ELSE [done |-> FALSE, pos |-> target, res |-> RetrieveFail(target, 1)]

\* fai_retrieve after the malloc: the reads, from where the decoder stands (p)
fai_retrieve_reads(p, val, beg, end, fsz) ==
  LET size == ((end - beg) + val.line_len - val.line_blen + 1)
                % (SIZE_MAX + 1)
      buf0 == [i \in 1..size |-> UNINIT]
      remaining == end - beg
      firstline_blen == val.line_blen - (beg % val.line_blen)
  IN
  IF remaining <= firstline_blen
    THEN LET d == BgzfRead(fsz, p, remaining)
         IN  IF Len(d) < remaining
               THEN [RetrieveFail(p + Len(d), 2)
                       EXCEPT !.oob = Overrun(buf0, 0, d)]
               ELSE RetrieveOk(Store(Store(buf0, 0, d), Len(d), <<NUL>>),
                               remaining, p + Len(d), 2,
                               Overrun(buf0, 0, d)
                                 \/ Overrun(buf0, Len(d), <<NUL>>))
    ELSE LET firstline_len == val.line_len - (beg % val.line_blen)
             d == BgzfRead(fsz, p, firstline_len)
         IN  IF Len(d) < firstline_len
               THEN [RetrieveFail(p + Len(d), 2)
                       EXCEPT !.oob = Overrun(buf0, 0, d)]
               ELSE LET r == ReadLines(val, fsz, Store(buf0, 0, d),
                                       firstline_blen,
                                       remaining - firstline_blen,
                                       p + Len(d), 2,
                                       Overrun(buf0, 0, d))
                    IN  IF r.ptr = "NULL" THEN r
                        ELSE [r EXCEPT !.len = remaining]

\* fai_retrieve(bgzf, val, offset, beg, end, len): p is the decoder's position
\* on entry, env the outcome of the calls that can fail for outside reasons.
fai_retrieve(p, val, offset, beg, end, env, fsz) ==
  LET sk == fai_retrieve_seek(p, val, offset, beg, end, env)
  IN  IF sk.done THEN sk.res
      ELSE fai_retrieve_reads(sk.pos, val, beg, end, fsz)

\* bug: begin is not clamped to the sequence length
faidx_adjust_position_open(val, end_adjust, p_beg_i, p_end_i) ==
  LET b1 == IF p_end_i < p_beg_i THEN p_end_i ELSE p_beg_i
      b2 == IF b1 < 0 THEN 0 ELSE b1
      e2 == IF p_end_i < 0 THEN 0
            ELSE IF val.len <= p_end_i THEN val.len - end_adjust ELSE p_end_i
  IN  <<b2, e2>>

\* faidx_adjust_position(meta, end_adjust, &val, c_name, &beg, &end, len) for a
\* name that is in the hash: the clamped <<beg, end>>.
faidx_adjust_position(val, end_adjust, p_beg_i, p_end_i) ==
  LET b1 == IF p_end_i < p_beg_i THEN p_end_i ELSE p_beg_i
      b2 == IF b1 < 0 THEN 0 ELSE IF val.len <= b1 THEN val.len ELSE b1
      e2 == IF p_end_i < 0 THEN 0
            ELSE IF val.len <= p_end_i THEN val.len - end_adjust ELSE p_end_i
  IN  <<b2, e2>>

\* bug: an unknown name reported as a generic error
NotFoundAsError(p) ==
  [ptr |-> "NULL", len |-> 0 - 1, buf |-> <<>>, pos |-> p, ops |-> 0,
   oob |-> FALSE]

\* if (len) *len = -2; return NULL;
NotFound(p) ==
  [ptr |-> "NULL", len |-> 0 - 2, buf |-> <<>>, pos |-> p, ops |-> 0,
   oob |-> FALSE]

\* faidx_reader_fetch_seq(reader, c_name, p_beg_i, p_end_i, len)
faidx_reader_fetch_seq(m, fsz, p, c_name, p_beg_i, p_end_i, env) ==
  IF ~InHash(m, c_name) THEN NotFound(p)
  ELSE LET val == m.hash[c_name]
           be  == faidx_adjust_position(val, 1, p_beg_i, p_end_i)
       IN  fai_retrieve(p, val, val.seq_offset, be[1], be[2] + 1, env, fsz)

\* bug: the format is not checked
faidx_reader_fetch_qual_anyformat(m, fsz, p, c_name, p_beg_i, p_end_i, env) ==
  IF ~InHash(m, c_name) THEN NotFound(p)
  ELSE LET val == m.hash[c_name]
           be  == faidx_adjust_position(val, 1, p_beg_i, p_end_i)
       IN  fai_retrieve(p, val, val.qual_offset, be[1], be[2] + 1, env, fsz)

\* bug: the quality fetch reads at the sequence offset
faidx_reader_fetch_qual_seqoffset(m, fsz, p, c_name, p_beg_i, p_end_i, env) ==
  IF m.format # FAI_FASTQ THEN NotFound(p)
  ELSE IF ~InHash(m, c_name) THEN NotFound(p)
  ELSE LET val == m.hash[c_name]
           be  == faidx_adjust_position(val, 1, p_beg_i, p_end_i)
       IN  fai_retrieve(p, val, val.seq_offset, be[1], be[2] + 1, env, fsz)

\* faidx_reader_fetch_qual(reader, c_name, p_beg_i, p_end_i, len)
faidx_reader_fetch_qual(m, fsz, p, c_name, p_beg_i, p_end_i, env) ==
  IF m.format # FAI_FASTQ THEN NotFound(p)
  ELSE IF ~InHash(m, c_name) THEN NotFound(p)
  ELSE LET val == m.hash[c_name]
           be  == faidx_adjust_position(val, 1, p_beg_i, p_end_i)
       IN  fai_retrieve(p, val, val.qual_offset, be[1], be[2] + 1, env, fsz)

\* ------------------------------------------------------------ fetch actions

NoEnv == [seek_fail |-> FALSE, alloc_fail |-> FALSE]
Envs  == {NoEnv, [seek_fail |-> TRUE, alloc_fail |-> FALSE],
          [seek_fail |-> FALSE, alloc_fail |-> TRUE]}

NoCall ==
  [op |-> "none", rdr |-> 0, name |-> "", beg |-> 0, end |-> 0, env |-> NoEnv,
   pos0 |-> 0,
   res |-> [ptr |-> "NULL", len |-> 0, buf |-> <<>>, pos |-> 0, ops |-> 0,
            oob |-> FALSE]]

\* What a fetch on reader r leaves behind: the decoder's position and the call
\* with its result.
Fetched(r, op, c_name, b, e, env, res) ==
  /\ pos' = [pos EXCEPT ![r] = res.pos]
  /\ last' = [op |-> op, rdr |-> r, name |-> c_name, beg |-> b, end |-> e,
              env |-> env, pos0 |-> pos[r], res |-> res]

FetchSeq(r, c_name, b, e, env) ==
  /\ reader[r] = "open"
  /\ Fetched(r, "seq", c_name, b, e, env,
             faidx_reader_fetch_seq(meta, fsize, pos[r], c_name, b, e, env))
  /\ UNCHANGED <<meta, fsize, ld, call, dec, tbl, lifeVars>>

FetchQual(r, c_name, b, e, env) ==
  /\ reader[r] = "open"
  /\ Fetched(r, "qual", c_name, b, e, env,
             faidx_reader_fetch_qual(meta, fsize, pos[r], c_name, b, e, env))
  /\ UNCHANGED <<meta, fsize, ld, call, dec, tbl, lifeVars>>

\* fai_retrieve called as faidx_reader_fetch_seq calls it, on the descriptor
\* of c_name, with a range that did not go through faidx_adjust_position
Retrieve(r, c_name, beg, end, env) ==
  /\ reader[r] = "open"
  /\ InHash(meta, c_name)
  /\ Fetched(r, "retrieve", c_name, beg, end, env,
             fai_retrieve(pos[r], meta.hash[c_name],
                          meta.hash[c_name].seq_offset, beg, end, env, fsize))
  /\ UNCHANGED <<meta, fsize, ld, call, dec, tbl, lifeVars>>

\* bug: the readers read through one decoder
SharedDecoder(r) == 1

\* reader->bgzf: the decoder faidx_reader_create opened for reader r alone
Decoder(r) == r

\* A BGZF file: the uncompressed stream cut into blocks of BlockLen bytes (the
\* last one shorter), each compressed into CBlockLen bytes of the file.
NBlocks(fsz) == (fsz + BlockLen - 1) \div BlockLen
BlockBytes(fsz, k) == Min(BlockLen, fsz - k * BlockLen)

\* The pairs of the .gzi of that file: the compressed and the uncompressed
\* offset of every block but the first.
GziPairs(fsz) ==
  [k \in 1..(NBlocks(fsz) - 1) |->
     [caddr |-> k * CBlockLen, uaddr |-> k * BlockLen]]

\* bug: the two numbers of a pair are read in the other order
offs_swapped(pairs) ==
  <<[caddr |-> 0, uaddr |-> 0]>>
    \o [i \in 1..Len(pairs) |->
          [caddr |-> pairs[i].uaddr, uaddr |-> pairs[i].caddr]]

\* idx->offs as bgzf_index_load_direct builds it: noffs = x + 1,
\* offs[0].caddr = offs[0].uaddr = 0, then the x pairs of the file in order
offs(pairs) == <<[caddr |-> 0, uaddr |-> 0]>> \o pairs

\* the binary search of bgzf_useek over offs[ilo..ihi] (0-based): the index of
\* the greatest entry with uaddr <= uoffset
RECURSIVE UseekSearch(_, _, _, _)
UseekSearch(table, uoffset, ilo, ihi) ==
  IF ilo > ihi THEN ilo - 1
  ELSE LET i == (ilo + ihi) \div 2
       IN  IF uoffset < table[i + 1].uaddr
             THEN UseekSearch(table, uoffset, ilo, i - 1)
             ELSE UseekSearch(table, uoffset, i + 1, ihi)

\* bgzf_useek(fp, uoffset, SEEK_SET) on a decoder that works: a plain seek on
\* an uncompressed file; on a compressed one, -1 without a table, else the
\* decoder loads the block at the caddr of the entry found and stands
\* uoffset - uaddr bytes into it. pos is where the decoder then stands in the
\* uncompressed stream: in that block, or at the next block when the block has
\* no such byte; -1 when no block starts at caddr.
bgzf_useek(fp, uoffset) ==
  IF ~fp.is_compressed THEN [ok |-> TRUE, pos |-> uoffset]
  ELSE IF fp.idx = <<>> THEN [ok |-> FALSE, pos |-> 0]
  ELSE LET table == fp.idx[1]
           i     == UseekSearch(table, uoffset, 0, Len(table) - 1)
           caddr == table[i + 1].caddr
           skip  == uoffset - table[i + 1].uaddr
           k     == caddr \div CBlockLen
       IN  IF caddr % CBlockLen # 0 \/ k >= Max(NBlocks(fp.fsz), 1)
             THEN [ok |-> FALSE, pos |-> 0]
           ELSE [ok |-> TRUE,
                 pos |-> IF skip < BlockBytes(fp.fsz, k) \/ k + 1 >= NBlocks(fp.fsz)
                           THEN k * BlockLen + skip
                           ELSE (k + 1) * BlockLen]

\* reader->bgzf of reader r: whether the file it reads is compressed, the
\* table its idx points at (meta->bgzf_idx, loaded from the .gzi), the file
Bgzf(r) ==
  [is_compressed |-> meta.is_bgzf,
   idx |-> IF dec[Decoder(r)].idx = "NULL" THEN <<>>
           ELSE <<offs(GziPairs(fsize))>>,
   fsz |-> fsize]

\* faidx_reader_fetch_seq on reader r up to the return of malloc in
\* fai_retrieve: the lookup, the clamp, the checks, the seek on r's decoder.
\* The call returns here when the name is unknown or a check, the seek or the
\* allocation fails.
FetchSeek(r, c_name, b, e, env) ==
  /\ reader[r] = "open" /\ call[r].st # "seeked"
  /\ LET known == InHash(meta, c_name)
         val == IF known THEN meta.hash[c_name] ELSE call[r].val
         be  == faidx_adjust_position(val, 1, b, e)
         sk  == IF known
                  THEN fai_retrieve_seek(pos[Decoder(r)], val, val.seq_offset,
                                         be[1], be[2] + 1, env)
                  ELSE [done |-> TRUE, pos |-> pos[Decoder(r)],
                        res |-> NotFound(pos[Decoder(r)])]
         \* bgzf_useek was called and the device did not fail: the decoder
         \* resolves the position through its table
         sought == known /\ sk.res.ops = 1 /\ ~env.seek_fail
         u   == IF sought THEN bgzf_useek(Bgzf(r), sk.pos)
                ELSE [ok |-> TRUE, pos |-> sk.pos]
     IN  /\ pos' = [pos EXCEPT ![Decoder(r)] = IF u.ok THEN u.pos ELSE @]
         /\ call' = [call EXCEPT ![r] =
                       [st |-> IF sk.done \/ ~u.ok THEN "done" ELSE "seeked",
                        name |-> c_name, beg |-> b, end |-> e, env |-> env,
                        val |-> val, be |-> be,
                        res |-> IF u.ok THEN [sk.res EXCEPT !.pos = u.pos]
                                ELSE RetrieveFail(pos[Decoder(r)], 1)]]
  /\ UNCHANGED <<meta, fsize, ld, dec, tbl, lifeVars, last>>

\* the reads of fai_retrieve on reader r's decoder, from where it stands, and
\* the return
FetchRead(r) ==
  /\ reader[r] = "open" /\ call[r].st = "seeked"
  /\ LET res == fai_retrieve_reads(pos[Decoder(r)], call[r].val, call[r].be[1],
                                   call[r].be[2] + 1, fsize)
     IN  /\ pos' = [pos EXCEPT ![Decoder(r)] = res.pos]
         /\ call' = [call EXCEPT ![r].st = "done", ![r].res = res]
  /\ UNCHANGED <<meta, fsize, ld, dec, tbl, lifeVars, last>>

\* --------------------------------------------------------- lifetime actions

Idle(t) == pc[t] = "idle"

\* Thread t has a pointer to the index that is backed by a reference of its own.
HasPointer(t) == held[t] >= 1 \/ reader[t] = "open"

\* A statement that reads, locks or writes the index storage: after the
\* teardown it is a use after free.
Touched == uaf' = (uaf \/ nfree > 0)

\* One outcome of a use after free: the process dies.
Crash ==
  /\ nfree > 0
  /\ pc' = [u \in DOMAIN pc |-> "fault"]
  /\ UNCHANGED <<meta, fsize, ld, call, dec, tbl, ref_count, mutex, nfree, ret, should_free, held,
                 reader, pos, last>>

\* A holder passes one of its references to another thread.
HandOver(t, u) ==
  /\ Idle(t) /\ t # u /\ held[t] >= 1 /\ held[u] < MaxHeld
  /\ held' = [held EXCEPT ![t] = @ - 1, ![u] = @ + 1]
  /\ UNCHANGED <<meta, fsize, ld, call, dec, tbl, ref_count, mutex, nfree, uaf, pc, ret,
                 should_free, reader, pos, last>>

\* faidx_meta_ref(meta) called by a thread that holds a reference.
CallRef(t) ==
  /\ Idle(t) /\ HasPointer(t) /\ held[t] < MaxHeld
  /\ pc' = [pc EXCEPT ![t] = "ref_lock"]
  /\ ret' = [ret EXCEPT ![t] = "ref_done"]
  /\ UNCHANGED <<meta, fsize, ld, call, dec, tbl, ref_count, mutex, nfree, uaf, should_free, held,
                 reader, pos, last>>

\* pthread_mutex_lock(&meta->mutex) in faidx_meta_ref
RefLock(t) ==
  /\ pc[t] = "ref_lock" /\ mutex = 0
  /\ Touched
  /\ \/ /\ mutex' = t
        /\ pc' = [pc EXCEPT ![t] = "ref_inc"]
        /\ UNCHANGED <<meta, fsize, ld, call, dec, tbl, ref_count, nfree, ret, should_free, held,
                       reader, pos, last>>
     \/ Crash

\* bug: the function returns with the mutex still locked
pthread_mutex_unlock_skipped(m) == m

\* pthread_mutex_unlock(&meta->mutex) by the holder m: the mutex is free
pthread_mutex_unlock(m) == 0

\* bug: the increment is lost
RefCountLostUpdate(count) == count

\* the count faidx_meta_ref leaves
RefCountAfterRef(count) == count + 1

\* meta->ref_count++; pthread_mutex_unlock(&meta->mutex); return meta: to the
\* caller, who now holds one more reference, or into faidx_reader_create.
RefInc(t) ==
  /\ pc[t] = "ref_inc"
  /\ Touched
  /\ \/ /\ ref_count' = RefCountAfterRef(ref_count)
        /\ mutex' = pthread_mutex_unlock(mutex)
        /\ pc' = [pc EXCEPT ![t] = IF ret[t] = "ref_done" THEN "idle" ELSE ret[t]]
        /\ held' = [held EXCEPT ![t] = IF ret[t] = "ref_done" THEN @ + 1 ELSE @]
        /\ UNCHANGED <<meta, fsize, ld, call, dec, tbl, nfree, ret, should_free, reader, pos, last>>
     \/ Crash

\* faidx_meta_destroy(meta) called by a holder on one of its references.
CallDestroy(t) ==
  /\ Idle(t) /\ held[t] >= 1
  /\ held' = [held EXCEPT ![t] = @ - 1]
  /\ pc' = [pc EXCEPT ![t] = "d_lock"]
  /\ ret' = [ret EXCEPT ![t] = "idle"]
  /\ UNCHANGED <<meta, fsize, ld, call, dec, tbl, ref_count, mutex, nfree, uaf, should_free,
                 reader, pos, last>>

\* pthread_mutex_lock(&meta->mutex) in faidx_meta_destroy
DestroyLock(t) ==
  /\ pc[t] = "d_lock" /\ mutex = 0
  /\ Touched
  /\ \/ /\ mutex' = t
        /\ pc' = [pc EXCEPT ![t] = "d_dec"]
        /\ UNCHANGED <<meta, fsize, ld, call, dec, tbl, ref_count, nfree, ret, should_free, held,
                       reader, pos, last>>
     \/ Crash

\* bug: the teardown starts one reference early
ShouldFreeEarly(count) == count <= 1

\* bug: the teardown never starts at zero
ShouldFreeLate(count) == count < 0

\* int should_free = (meta->ref_count <= 0), on the decremented count
ShouldFree(count) == count <= 0

\* bug: the decrement is lost
RefCountLostDecrement(count) == count

\* the count faidx_meta_destroy leaves
RefCountAfterDestroy(count) == count - 1

\* meta->ref_count--; should_free = ...; pthread_mutex_unlock(&meta->mutex);
\* then into the teardown, or return
DestroyDec(t) ==
  /\ pc[t] = "d_dec"
  /\ Touched
  /\ \/ /\ ref_count' = RefCountAfterDestroy(ref_count)
        /\ should_free' = [should_free EXCEPT ![t] =
                             ShouldFree(RefCountAfterDestroy(ref_count))]
        /\ mutex' = pthread_mutex_unlock(mutex)
        /\ pc' = [pc EXCEPT ![t] =
                    IF ShouldFree(RefCountAfterDestroy(ref_count))
                      THEN "d_free" ELSE ret[t]]
        /\ UNCHANGED <<meta, fsize, ld, call, dec, tbl, nfree, ret, held, reader, pos, last>>
     \/ Crash

\* free() of the block-offset table storage, counted up to "more than once"
FreedOnceMore(n) == IF n = 0 THEN 1 ELSE 2

\* if (should_free) { kh_destroy, free of the names, of the block-offset
\* table, of the paths, pthread_mutex_destroy, free(meta) }
\* nfree records the teardowns: 0 none, 1 one, 2 more than one (double free).
DestroyFree(t) ==
  /\ pc[t] = "d_free"
  /\ Touched
  /\ \/ /\ nfree' = IF nfree = 0 THEN 1 ELSE 2
        /\ tbl' = IF meta.bgzf_idx # "NULL" THEN FreedOnceMore(tbl) ELSE tbl
        /\ pc' = [pc EXCEPT ![t] = ret[t]]
        /\ UNCHANGED <<meta, fsize, ld, call, dec, ref_count, mutex, ret,
                       should_free, held, reader, pos, last>>
     \/ Crash

\* faidx_reader_create(meta) called by a thread that holds a reference.
CallCreate(t) ==
  /\ Idle(t) /\ HasPointer(t) /\ reader[t] = "none"
  /\ pc' = [pc EXCEPT ![t] = "c_alloc"]
  /\ UNCHANGED <<meta, fsize, ld, call, dec, tbl, ref_count, mutex, nfree, uaf, ret, should_free,
                 held, reader, pos, last>>

\* faidx_reader_create(data->meta) the way the drivers' workers call it: on
\* the pointer main handed them, with no reference of their own; main still
\* holds its reference when the call is made.
BorrowCreate(t) ==
  /\ Idle(t) /\ ~HasPointer(t) /\ reader[t] = "none"
  /\ \E u \in Threads : held[u] >= 1
  /\ pc' = [pc EXCEPT ![t] = "c_alloc"]
  /\ UNCHANGED <<meta, fsize, ld, call, dec, tbl, ref_count, mutex, nfree, uaf, ret, should_free,
                 held, reader, pos, last>>

\* reader = calloc(1, sizeof(faidx_reader_t)); if (!reader) return NULL;
\* then reader->meta = faidx_meta_ref(meta)
CreateAlloc(t, ok) ==
  /\ pc[t] = "c_alloc"
  /\ IF ok
       THEN /\ reader' = [reader EXCEPT ![t] = "alloc"]
            /\ pc' = [pc EXCEPT ![t] = "ref_lock"]
            /\ ret' = [ret EXCEPT ![t] = "c_open"]
       ELSE /\ pc' = [pc EXCEPT ![t] = "idle"]
            /\ UNCHANGED <<reader, ret>>
  /\ UNCHANGED <<meta, fsize, ld, call, dec, tbl, ref_count, mutex, nfree, uaf, should_free, held,
                 pos, last>>

\* bug: the failed open does not give the reference back
AfterOpenKeepingRef(ok) == IF ok THEN "idle" ELSE "c_free"

\* where faidx_reader_create goes after the open: back to the caller with the
\* reader, or into faidx_meta_destroy(reader->meta) when the open failed
AfterOpen(ok) == IF ok THEN "idle" ELSE "d_lock"

\* no decoder: reader->bgzf is NULL
NoDecoder == [open |-> FALSE, idx |-> "NULL"]

\* bug: the decoder loads a block-offset table of its own
bgzf_open_own_idx(m) == IF m.is_bgzf THEN "own" ELSE "NULL"

\* bgzf->idx of the decoder faidx_reader_create opens: meta->bgzf_idx through
\* bgzf_open_shared_idx for a compressed source, none after a plain bgzf_open
bgzf_open_shared_idx(m) == IF m.is_bgzf THEN m.bgzf_idx ELSE "NULL"

\* meta->is_bgzf and meta->fasta_path are read and the decoder is opened;
\* if (!reader->bgzf) { faidx_meta_destroy(reader->meta); free(reader); }
CreateOpen(t, ok) ==
  /\ pc[t] = "c_open"
  /\ Touched
  /\ \/ /\ reader' = [reader EXCEPT ![t] = IF ok THEN "open" ELSE @]
        /\ dec' = [dec EXCEPT ![t] =
                     IF ok THEN [open |-> TRUE, idx |-> bgzf_open_shared_idx(meta)]
                     ELSE NoDecoder]
        /\ pos' = [pos EXCEPT ![t] = 0]
        /\ pc' = [pc EXCEPT ![t] = AfterOpen(ok)]
        /\ ret' = [ret EXCEPT ![t] = IF ok THEN @ ELSE "c_free"]
        /\ UNCHANGED <<meta, fsize, ld, call, tbl, ref_count, mutex, nfree,
                       should_free, held, last>>
     \/ Crash

\* free(reader): after the failed open, and at the end of faidx_reader_destroy
FreeReader(t) ==
  /\ pc[t] \in {"c_free", "rd_free"}
  /\ reader' = [reader EXCEPT ![t] = "none"]
  /\ pc' = [pc EXCEPT ![t] = "idle"]
  /\ UNCHANGED <<meta, fsize, ld, call, dec, tbl, ref_count, mutex, nfree, uaf, ret, should_free,
                 held, pos, last>>

\* bug: the decoder is closed with the shared table still attached
IdxAtCloseAttached(idx) == idx

\* reader->bgzf->idx = NULL: the idx pointer bgzf_close finds
IdxAtClose(idx) == "NULL"

\* faidx_reader_destroy(reader): reader->bgzf->idx = NULL; bgzf_close, which
\* frees the table its idx points at and closes the handle; then
\* faidx_meta_destroy(reader->meta)
ReaderDestroy(t) ==
  /\ Idle(t) /\ reader[t] = "open"
  /\ reader' = [reader EXCEPT ![t] = "closing"]
  /\ dec' = [dec EXCEPT ![t] = NoDecoder]
  /\ tbl' = IF dec[t].open /\ IdxAtClose(dec[t].idx) # "NULL"
              THEN FreedOnceMore(tbl) ELSE tbl
  /\ pos' = [pos EXCEPT ![t] = 0]
  /\ pc' = [pc EXCEPT ![t] = "d_lock"]
  /\ ret' = [ret EXCEPT ![t] = "rd_free"]
  /\ UNCHANGED <<meta, fsize, ld, call, ref_count, mutex, nfree, uaf,
                 should_free, held, last>>

\* The fetch of the drivers' workers (test_thread): the first min(len, 10)
\* bases of a sequence of the index, on the thread's own reader.
ThreadFetch(t) ==
  /\ Idle(t) /\ reader[t] = "open"
  /\ meta.hash[meta.name[1]].len > 0
  /\ Touched
  /\ \/ /\ Fetched(t, "seq", meta.name[1], 0,
                   Min(meta.hash[meta.name[1]].len, 10) - 1, NoEnv,
                   faidx_reader_fetch_seq(meta, fsize, pos[t], meta.name[1], 0,
                       Min(meta.hash[meta.name[1]].len, 10) - 1, NoEnv))
        /\ UNCHANGED <<meta, fsize, ld, call, dec, tbl, ref_count, mutex, nfree, pc, ret,
                       should_free, held, reader>>
     \/ /\ Crash
        /\ UNCHANGED <<pos, last>>

\* -------------------------------------------------------------- query actions
\* Thread t calls a query function, with a NULL index (null) or with the index
\* it has a pointer to; last records the call and what it returned.

MetaPtr(null) == IF null THEN <<>> ELSE <<meta>>

Queried(op, null, arg, res) ==
  last' = [op |-> op, null |-> null, arg |-> arg, res |-> res]

QueryNseq(t, null) ==
  /\ Idle(t) /\ (null \/ HasPointer(t))
  /\ Queried("nseq", null, <<>>, faidx_meta_nseq(MetaPtr(null)))
  /\ UNCHANGED <<meta, fsize, ld, call, dec, tbl, lifeVars, pos>>

QueryIseq(t, null, i) ==
  /\ Idle(t) /\ (null \/ HasPointer(t))
  /\ Queried("iseq", null, i, faidx_meta_iseq(MetaPtr(null), i))
  /\ UNCHANGED <<meta, fsize, ld, call, dec, tbl, lifeVars, pos>>

QuerySeqLen(t, null, seq) ==
  /\ Idle(t) /\ (null \/ HasPointer(t))
  /\ Queried("seq_len", null, seq, faidx_meta_seq_len(MetaPtr(null), seq))
  /\ UNCHANGED <<meta, fsize, ld, call, dec, tbl, lifeVars, pos>>

\* bug: the lookup is a kh_put, which adds the name it does not find
QueryHasSeqInserting(t, null, seq) ==
  /\ Idle(t) /\ (null \/ HasPointer(t))
  /\ Queried("has_seq", null, seq, faidx_meta_has_seq(MetaPtr(null), seq))
  /\ meta' = IF null \/ seq = <<>> \/ InHash(meta, seq[1]) THEN meta
             ELSE [meta EXCEPT !.hash =
                     [nm \in DOMAIN meta.hash \cup {seq[1]} |->
                        IF nm \in DOMAIN meta.hash THEN meta.hash[nm]
                        ELSE Descriptor(0, 0, 0, FAI_FASTA)]]
  /\ UNCHANGED <<fsize, ld, call, dec, tbl, lifeVars, pos>>

QueryHasSeq(t, null, seq) ==
  /\ Idle(t) /\ (null \/ HasPointer(t))
  /\ Queried("has_seq", null, seq, faidx_meta_has_seq(MetaPtr(null), seq))
  /\ UNCHANGED <<meta, fsize, ld, call, dec, tbl, lifeVars, pos>>

ParseRegion(t, s) ==
  /\ Idle(t) /\ HasPointer(t)
  /\ Queried("parse_region", FALSE, s, faidx_meta_parse_region(meta, s))
  /\ UNCHANGED <<meta, fsize, ld, call, dec, tbl, lifeVars, pos>>

\* ------------------------------------------------------------ specifications

\* no fetch in progress on a reader
NoFetch ==
  [st |-> "idle", name |-> "", beg |-> 0, end |-> 0, env |-> NoEnv,
   val |-> Descriptor(0, 0, 0, FAI_FASTA), be |-> <<0, 0>>,
   res |-> RetrieveFail(0, 0)]

\* what a successful faidx_meta_load leaves besides the index: no file handle
Loaded ==
  [state |-> "ok", handles |-> 0, names |-> <<KnownName>>,
   recs |-> <<KnownName>>, heap |-> NoHeap]

\* After faidx_meta_load of a compressed source with its .gzi: one reference,
\* held by thread 1, no reader.
InitLife ==
  /\ meta = [MetaOf(Descriptor(MaxLen, MaxBlen, 1, FAI_FASTA), FAI_FASTA)
             EXCEPT !.is_bgzf = TRUE, !.bgzf_idx = "table"]
  /\ ld = Loaded
  /\ call = [r \in Readers |-> NoFetch]
  /\ dec = [r \in Readers |-> NoDecoder]
  /\ tbl = 0
  /\ fsize = FullSize(Descriptor(MaxLen, MaxBlen, 1, FAI_FASTA), FAI_FASTA)
  /\ ref_count = 1
  /\ mutex = 0
  /\ nfree = 0
  /\ uaf = FALSE
  /\ pc = [t \in Threads |-> "idle"]
  /\ ret = [t \in Threads |-> "idle"]
  /\ should_free = [t \in Threads |-> FALSE]
  /\ held = [t \in Threads |-> IF t = 1 THEN 1 ELSE 0]
  /\ reader = [t \in Threads |-> "none"]
  /\ pos = [t \in Threads |-> 0]
  /\ last = NoCall

\* The statements inside the four lifetime functions.
Step(t) ==
  \/ RefLock(t) \/ RefInc(t)
  \/ DestroyLock(t) \/ DestroyDec(t) \/ DestroyFree(t)
  \/ \E ok \in BOOLEAN : CreateAlloc(t, ok)
  \/ \E ok \in BOOLEAN : CreateOpen(t, ok)
  \/ FreeReader(t)

\* The calls a thread makes on references of its own.
Call(t) ==
  \/ \E u \in Threads : HandOver(t, u)
  \/ CallRef(t) \/ CallDestroy(t) \/ CallCreate(t)
  \/ ReaderDestroy(t)

NextLife == \E t \in Threads : Call(t) \/ Step(t)

\* Every holder releases its own reference once and calls only on a pointer
\* backed by a reference of its own.
SpecLife == InitLife /\ [][NextLife]_vars

\* The same with the scheduler's guarantee that a thread inside a call goes on.
SpecLifeFair == SpecLife /\ \A t \in Threads : WF_vars(Step(t))

\* The same with a mutex that does not pass over a waiting thread for ever.
SpecLifeLock == SpecLife /\ \A t \in Threads : SF_vars(Step(t))

\* Workers may also call faidx_reader_create on a borrowed pointer, and fetch.
NextBorrow == NextLife \/ \E t \in Threads : BorrowCreate(t) \/ ThreadFetch(t)

SpecBorrow == InitLife /\ [][NextBorrow]_vars

\* ---------------------------------------------------------------- the drivers
\* main of test.c, example.c and bench_faigz.c: it loads the index, starts
\* NUM_THREADS workers on the pointer, joins them and releases its reference.
\* The workers are the threads of Threads; main is one thread more.
NUM_THREADS == NThreads
MainThread == NThreads + 1
DriverThreads == Threads \cup {MainThread}

\* the worker of the next pthread_create, and of the next pthread_join
NextCreated == CHOOSE w \in Threads :
                 pc[w] = "unstarted" /\ \A v \in 1..(w - 1) : pc[v] # "unstarted"
NextJoined == CHOOSE w \in Threads :
                pc[w] # "joined" /\ \A v \in 1..(w - 1) : pc[v] = "joined"

\* After faidx_meta_load in main: one reference, held by main; no worker yet.
InitDriver ==
  /\ meta = [MetaOf(Descriptor(MaxLen, MaxBlen, 1, FAI_FASTA), FAI_FASTA)
             EXCEPT !.is_bgzf = TRUE, !.bgzf_idx = "table"]
  /\ ld = Loaded
  /\ call = [r \in Readers |-> NoFetch]
  /\ dec = [r \in Readers |-> NoDecoder]
  /\ tbl = 0
  /\ fsize = FullSize(Descriptor(MaxLen, MaxBlen, 1, FAI_FASTA), FAI_FASTA)
  /\ ref_count = 1
  /\ mutex = 0
  /\ nfree = 0
  /\ uaf = FALSE
  /\ pc = [t \in DriverThreads |->
             IF t = MainThread THEN "m_create" ELSE "unstarted"]
  /\ ret = [t \in DriverThreads |-> "idle"]
  /\ should_free = [t \in DriverThreads |-> FALSE]
  /\ held = [t \in DriverThreads |-> IF t = MainThread THEN 1 ELSE 0]
  /\ reader = [t \in DriverThreads |-> "none"]
  /\ pos = [t \in Threads |-> 0]
  /\ last = NoCall

\* thread_data[i].meta = meta; pthread_create(&threads[i], ...) in the loop of
\* main: the worker starts, or the call fails and main calls
\* faidx_meta_destroy(meta) and returns 1.
MainCreate(ok) ==
  /\ pc[MainThread] = "m_create"
  /\ LET w == NextCreated
     IN  IF ok
           THEN /\ pc' = [pc EXCEPT ![w] = "w_start",
                                    ![MainThread] = IF w = NUM_THREADS
                                                      THEN "m_join" ELSE @]
                /\ UNCHANGED <<held, ret>>
           ELSE /\ pc' = [pc EXCEPT ![MainThread] = "d_lock"]
                /\ held' = [held EXCEPT ![MainThread] = @ - 1]
                /\ ret' = [ret EXCEPT ![MainThread] = "m_exit"]
  /\ UNCHANGED <<meta, fsize, ld, call, dec, tbl, ref_count, mutex, nfree, uaf,
                 should_free, reader, pos, last>>

\* pthread_join(threads[i], NULL) in the loop of main: it returns when worker
\* i has returned; after the last one main goes on to its clean-up. On the
\* path of a failed pthread_create no join is made.
MainJoin ==
  /\ pc[MainThread] = "m_join"
  /\ LET w == NextJoined
     IN  /\ pc[w] = "done"
         /\ pc' = [pc EXCEPT ![w] = "joined",
                             ![MainThread] = IF w = NUM_THREADS
                                               THEN "m_cleanup" ELSE @]
  /\ UNCHANGED <<meta, fsize, ld, call, dec, tbl, ref_count, mutex, nfree, uaf,
                 ret, should_free, held, reader, pos, last>>

\* "Clean up": faidx_meta_destroy(meta) after the joins
MainCleanup ==
  /\ pc[MainThread] = "m_cleanup"
  /\ pc' = [pc EXCEPT ![MainThread] = "d_lock"]
  /\ held' = [held EXCEPT ![MainThread] = @ - 1]
  /\ ret' = [ret EXCEPT ![MainThread] = "m_exit"]
  /\ UNCHANGED <<meta, fsize, ld, call, dec, tbl, ref_count, mutex, nfree, uaf,
                 should_free, reader, pos, last>>

\* return from main: the process ends, and every thread with it
MainExit ==
  /\ pc[MainThread] = "m_exit"
  /\ pc' = [u \in DOMAIN pc |-> "exited"]
  /\ UNCHANGED <<meta, fsize, ld, call, dec, tbl, ref_count, mutex, nfree, uaf,
                 ret, should_free, held, reader, pos, last>>

\* the worker's first statement: reader = faidx_reader_create(data->meta), on
\* the pointer main put into thread_data, whatever main has done since
WorkerCreate(w) ==
  /\ pc[w] = "w_start"
  /\ pc' = [pc EXCEPT ![w] = "c_alloc"]
  /\ UNCHANGED <<meta, fsize, ld, call, dec, tbl, ref_count, mutex, nfree, uaf,
                 ret, should_free, held, reader, pos, last>>

\* return NULL of the worker: after a failed faidx_reader_create, or after
\* faidx_reader_destroy(reader)
WorkerReturn(w) ==
  /\ Idle(w) /\ reader[w] = "none"
  /\ pc' = [pc EXCEPT ![w] = "done"]
  /\ UNCHANGED <<meta, fsize, ld, call, dec, tbl, ref_count, mutex, nfree, uaf,
                 ret, should_free, held, reader, pos, last>>

\* the worker function: create the reader, fetch, destroy the reader, return
Worker(w) ==
  \/ WorkerCreate(w) \/ ThreadFetch(w) \/ ReaderDestroy(w) \/ WorkerReturn(w)

NextDriver ==
  \/ \E ok \in BOOLEAN : MainCreate(ok)
  \/ MainJoin \/ MainCleanup \/ MainExit
  \/ \E w \in Threads : Worker(w)
  \/ \E t \in DriverThreads : Step(t)

SpecDriver == InitDriver /\ [][NextDriver]_vars

\* One fetch on a loaded index on which every thread has an open reader: every
\* descriptor, name, range and outside failure within the bounds, on the whole
\* file, on the file that lost its last payload byte and line terminator, and
\* on the file that lost one more line.
Positions == (0 - Margin)..(MaxLen + Margin)

InitFetch ==
  /\ \E len \in 0..MaxLen, blen \in 0..MaxBlen, eol \in 0..MaxEol,
        fmt \in {FAI_FASTA, FAI_FASTQ} :
       \E cut \in {0, eol + 1, blen + eol + 1} :
         /\ meta = MetaOf(Descriptor(len, blen, eol, fmt), fmt)
         /\ fsize = Max(0, FullSize(Descriptor(len, blen, eol, fmt), fmt) - cut)
  /\ ld = Loaded
  /\ call = [r \in Readers |-> NoFetch]
  /\ dec = [r \in Readers |-> [open |-> TRUE, idx |-> "NULL"]]
  /\ tbl = 0
  /\ ref_count = 1 + NThreads
  /\ mutex = 0
  /\ nfree = 0
  /\ uaf = FALSE
  /\ pc = [t \in Threads |-> "idle"]
  /\ ret = [t \in Threads |-> "idle"]
  /\ should_free = [t \in Threads |-> FALSE]
  /\ held = [t \in Threads |-> IF t = 1 THEN 1 ELSE 0]
  /\ reader = [t \in Threads |-> "open"]
  /\ pos = [t \in Threads |-> 0]
  /\ last = NoCall

NextFetch ==
  /\ last.op = "none"
  /\ \E r \in Readers, c_name \in Names, b \in Positions, e \in Positions,
        env \in Envs :
       \/ FetchSeq(r, c_name, b, e, env)
       \/ FetchQual(r, c_name, b, e, env)

SpecFetch == InitFetch /\ [][NextFetch]_vars

\* One fetch on a loaded index whose .fai gives the record any line geometry
\* with line_len >= line_blen >= 1 that the fields can hold: the terminators
\* of SpecFetch, and the widest gap line_len - line_blen of a line_len as wide
\* as size_t. The file is whole and laid out as the descriptor says, and its
\* offsets fit the offset type.
LineGaps(blen) == (0..MaxEol) \cup {SIZE_MAX - blen}

InitBuffer ==
  /\ \E len \in 0..MaxLen, blen \in 1..MaxBlen, fmt \in {FAI_FASTA, FAI_FASTQ} :
       \E eol \in LineGaps(blen) :
         /\ FullSize(Descriptor(len, blen, eol, fmt), fmt) < PosRange
         /\ meta = MetaOf(Descriptor(len, blen, eol, fmt), fmt)
         /\ fsize = FullSize(Descriptor(len, blen, eol, fmt), fmt)
  /\ ld = Loaded
  /\ call = [r \in Readers |-> NoFetch]
  /\ dec = [r \in Readers |-> [open |-> TRUE, idx |-> "NULL"]]
  /\ tbl = 0
  /\ ref_count = 1 + NThreads
  /\ mutex = 0
  /\ nfree = 0
  /\ uaf = FALSE
  /\ pc = [t \in Threads |-> "idle"]
  /\ ret = [t \in Threads |-> "idle"]
  /\ should_free = [t \in Threads |-> FALSE]
  /\ held = [t \in Threads |-> IF t = 1 THEN 1 ELSE 0]
  /\ reader = [t \in Threads |-> "open"]
  /\ pos = [t \in Threads |-> 0]
  /\ last = NoCall

SpecBuffer == InitBuffer /\ [][NextFetch]_vars

\* One call of the coordinate translator: through faidx_reader_fetch_seq, or
\* directly on a half-open range [beg, end) of any size the types can hold.
RetrieveBegins == 0..MaxBlen
RetrieveEnds   == 0..(SIZE_MAX + 1 + MaxBlen)

NextRetrieve ==
  /\ last.op = "none"
  /\ \/ \E r \in Readers, beg \in RetrieveBegins, end \in RetrieveEnds,
           env \in Envs : Retrieve(r, KnownName, beg, end, env)
     \/ \E r \in Readers, c_name \in Names, b \in Positions, e \in Positions,
           env \in Envs : FetchSeq(r, c_name, b, e, env)

SpecRetrieve == InitFetch /\ [][NextRetrieve]_vars

\* Fetches on all readers of one index at once, each fetch in its two parts,
\* one after another on each reader: the whole sequence and a range across a
\* line boundary, of a known and an unknown name, with the seek working or
\* failing, on the whole file and on the file that lost its last line.
ReaderRanges == {<<0, MaxLen - 1>>, <<1, MaxBlen>>}
ReaderEnvs   == {env \in Envs : ~env.alloc_fail}

InitReaders ==
  /\ \E cut \in {0, 2} :
       /\ meta = MetaOf(Descriptor(MaxLen, MaxBlen, 1, FAI_FASTA), FAI_FASTA)
       /\ fsize = FullSize(Descriptor(MaxLen, MaxBlen, 1, FAI_FASTA), FAI_FASTA)
                    - cut
  /\ ld = Loaded
  /\ call = [r \in Readers |-> NoFetch]
  /\ dec = [r \in Readers |-> [open |-> TRUE, idx |-> "NULL"]]
  /\ tbl = 0
  /\ ref_count = 1 + NThreads
  /\ mutex = 0
  /\ nfree = 0
  /\ uaf = FALSE
  /\ pc = [t \in Threads |-> "idle"]
  /\ ret = [t \in Threads |-> "idle"]
  /\ should_free = [t \in Threads |-> FALSE]
  /\ held = [t \in Threads |-> IF t = 1 THEN 1 ELSE 0]
  /\ reader = [t \in Threads |-> "open"]
  /\ pos = [t \in Threads |-> 0]
  /\ last = NoCall

NextReaders ==
  \E r \in Readers :
    \/ \E c_name \in Names, range \in ReaderRanges, env \in ReaderEnvs :
         FetchSeek(r, c_name, range[1], range[2], env)
    \/ FetchRead(r)

SpecReaders == InitReaders /\ [][NextReaders]_vars

\* One fetch, on any reader, of a BGZF-compressed file, the readers' decoders
\* attached to the table loaded from its .gzi, or to none: every range of the
\* sequence, of a known and an unknown name, the seek working or failing, on
\* the whole file and on the file that lost its last line.
BgzfRanges == {<<b, e>> : b \in 0..(MaxLen - 1), e \in 0..MaxLen}

InitBgzf ==
  /\ \E cut \in {0, 2}, idx \in {"table", "NULL"} :
       /\ meta = [MetaOf(Descriptor(MaxLen, MaxBlen, 1, FAI_FASTA), FAI_FASTA)
                  EXCEPT !.is_bgzf = TRUE, !.bgzf_idx = idx]
       /\ fsize = FullSize(Descriptor(MaxLen, MaxBlen, 1, FAI_FASTA), FAI_FASTA)
                    - cut
       /\ dec = [r \in Readers |->
                   [open |-> TRUE, idx |-> bgzf_open_shared_idx(meta)]]
  /\ ld = Loaded
  /\ call = [r \in Readers |-> NoFetch]
  /\ tbl = 0
  /\ ref_count = 1 + NThreads
  /\ mutex = 0
  /\ nfree = 0
  /\ uaf = FALSE
  /\ pc = [t \in Threads |-> "idle"]
  /\ ret = [t \in Threads |-> "idle"]
  /\ should_free = [t \in Threads |-> FALSE]
  /\ held = [t \in Threads |-> IF t = 1 THEN 1 ELSE 0]
  /\ reader = [t \in Threads |-> "open"]
  /\ pos = [t \in Threads |-> 0]
  /\ last = NoCall

NextBgzf ==
  \E r \in Readers :
    \/ /\ \A q \in Readers : call[q].st = "idle"
       /\ \E c_name \in Names, range \in BgzfRanges, env \in ReaderEnvs :
            FetchSeek(r, c_name, range[1], range[2], env)
    \/ FetchRead(r)

SpecBgzf == InitBgzf /\ [][NextBgzf]_vars

\* One query on an index loaded from a .fai with up to MaxSeq sequences, their
\* names any distinct names of the pool in any order: every query function,
\* with and without an index, on names in and not in the index, positions in
\* and out of range, and every region text of the grammar over a few numbers.
NameSeqs ==
  UNION {{nms \in [1..n -> {NamePool[i] : i \in 1..Len(NamePool)}] :
            \A i, j \in 1..n : nms[i] = nms[j] => i = j} : n \in 0..MaxSeq}

\* the decimal text of n
RECURSIVE Dec(_)
Dec(n) ==
  IF n < 10 THEN <<Digits[n + 1]>> ELSE Dec(n \div 10) \o <<Digits[(n % 10) + 1]>>

QueryNames   == {NamePool[1], NamePool[2], "z"}
RegionCoords == {1, 2, MaxLen, 2 * MaxLen + 2}
RegionTexts ==
  UNION {{<<nm>>} \cup {<<nm, ":">> \o Dec(b) : b \in RegionCoords}
           \cup {<<nm, ":">> \o Dec(b) \o <<"-">> : b \in RegionCoords}
           \cup {<<nm, ":">> \o Dec(b) \o <<"-">> \o Dec(e) :
                   b \in RegionCoords, e \in RegionCoords}
         : nm \in QueryNames}

InitQuery ==
  /\ \E nms \in NameSeqs :
       LET load == faidx_meta_load([fai |-> FaiOf(nms, FALSE), fail |-> "none",
                                    at |-> 1, junk |-> FALSE,
                                    gzi |-> "absent"])
       IN  /\ meta = load.meta
           /\ ref_count = load.ref_count
           /\ ld = [state |-> "ok", handles |-> load.handles, names |-> nms,
                    recs |-> nms, heap |-> load.heap]
           /\ fsize = OffsetOf(nms \o <<NamePool[1]>>, Len(nms) + 1) - HdrLen
  /\ call = [r \in Readers |-> NoFetch]
  /\ dec = [r \in Readers |-> NoDecoder]
  /\ tbl = 0
  /\ mutex = 0
  /\ nfree = 0
  /\ uaf = FALSE
  /\ pc = [t \in Threads |-> "idle"]
  /\ ret = [t \in Threads |-> "idle"]
  /\ should_free = [t \in Threads |-> FALSE]
  /\ held = [t \in Threads |-> IF t = 1 THEN 1 ELSE 0]
  /\ reader = [t \in Threads |-> "none"]
  /\ pos = [t \in Threads |-> 0]
  /\ last = NoCall

NextQuery ==
  /\ last.op = "none"
  /\ \E t \in Threads :
       \/ \E null \in BOOLEAN : QueryNseq(t, null)
       \/ \E null \in BOOLEAN, i \in (0 - 1)..MaxSeq : QueryIseq(t, null, i)
       \/ \E null \in BOOLEAN, seq \in {<<>>} \cup {<<nm>> : nm \in QueryNames} :
            QuerySeqLen(t, null, seq)
       \/ \E null \in BOOLEAN, seq \in {<<>>} \cup {<<nm>> : nm \in QueryNames} :
            QueryHasSeq(t, null, seq)
       \/ \E s \in RegionTexts : ParseRegion(t, s)

SpecQuery == InitQuery /\ [][NextQuery]_vars

\* The whole life of an index: faidx_meta_load on a two-record file (the two
\* names different, or the same in a plain file), plain or compressed, with
\* every state of the .gzi file and every failing step, by thread 1; then the
\* lifetime calls on what the load returned.
LoadNames == <<NamePool[1], NamePool[2]>>
\* the names of the records of the .fai: all different, or one name twice
LoadRecords == {LoadNames, <<NamePool[1], NamePool[1]>>}
LoadSources ==
  UNION {[recs : {r},
          fai  : {fai_load3_format(r, c) :
                    c \in IF r = LoadNames THEN BOOLEAN ELSE {FALSE}},
          fail : {"none"} \cup {LoadSteps[i] : i \in 1..Len(LoadSteps)},
          at   : 1..fai_load3_format(r, FALSE).n,
          junk : BOOLEAN,
          gzi  : IF r = LoadNames THEN {"absent", "bad", "ok"}
                 ELSE {"absent"}] : r \in LoadRecords}

\* meta = faidx_meta_load(filename, format, flags) in thread 1
Load(src) ==
  /\ ld.state = "none"
  /\ LET load == faidx_meta_load(src)
     IN  /\ meta' = load.meta
         /\ ref_count' = load.ref_count
         \* freeing what no allocation returned, or destroying a mutex
         \* never initialised, is undefined: the call returns NULL all the
         \* same, or the process dies there
         /\ \E st \in (IF load.ok THEN {"ok"}
                       ELSE IF load.heap.wild # {} THEN {"failed", "fault"}
                       ELSE {"failed"}) :
              ld' = [state |-> st, handles |-> load.handles,
                     names |-> src.fai.name, recs |-> src.recs,
                     heap |-> load.heap]
         /\ held' = [held EXCEPT ![1] = IF load.ok THEN 1 ELSE 0]
  /\ UNCHANGED <<fsize, call, dec, tbl, mutex, nfree, uaf, pc, ret,
                 should_free, reader, pos, last>>

InitLoad ==
  /\ meta = NoMeta
  /\ ld = [state |-> "none", handles |-> 0, names |-> <<>>, recs |-> <<>>,
           heap |-> NoHeap]
  /\ call = [r \in Readers |-> NoFetch]
  /\ dec = [r \in Readers |-> NoDecoder]
  /\ tbl = 0
  /\ fsize = OffsetOf(LoadNames \o <<NamePool[1]>>, Len(LoadNames) + 1) - HdrLen
  /\ ref_count = 0
  /\ mutex = 0
  /\ nfree = 0
  /\ uaf = FALSE
  /\ pc = [t \in Threads |-> "idle"]
  /\ ret = [t \in Threads |-> "idle"]
  /\ should_free = [t \in Threads |-> FALSE]
  /\ held = [t \in Threads |-> 0]
  /\ reader = [t \in Threads |-> "none"]
  /\ pos = [t \in Threads |-> 0]
  /\ last = NoCall

NextLoad ==
  \/ ld.state = "none" /\ \E src \in LoadSources : Load(src)
  \/ NextLife

SpecLoad == InitLoad /\ [][NextLoad]_vars

\* The lifetime calls of all threads up to one fetch or query: any thread that
\* is between calls and has a pointer of its own makes one query, or one fetch
\* on its open reader, at any point of the others' calls, the mutex held by
\* another thread or not.
ApiRegions == {<<KnownName, ":", "2", "-", "3">>}

ApiCall(t) ==
  \/ QueryNseq(t, FALSE)
  \/ QueryIseq(t, FALSE, 0)
  \/ QuerySeqLen(t, FALSE, <<KnownName>>)
  \/ QueryHasSeq(t, FALSE, <<UnknownName>>)
  \/ \E s \in ApiRegions : ParseRegion(t, s)
  \/ Idle(t) /\ FetchSeq(t, KnownName, 0, MaxLen - 1, NoEnv)
  \/ Idle(t) /\ FetchQual(t, KnownName, 0, MaxLen - 1, NoEnv)

NextApi ==
  /\ last.op = "none"
  /\ NextLife \/ \E t \in Threads : ApiCall(t)

SpecApi == InitLife /\ [][NextApi]_vars

Spec == SpecLife

\* ------------------------------------------------------------------ claims

RECURSIVE SumHeld(_)
SumHeld(S) ==
  IF S = {} THEN 0
  ELSE LET t == CHOOSE x \in S : TRUE IN held[t] + SumHeld(S \ {t})

\* Thread t's reader object holds a reference on the index: from the return of
\* faidx_meta_ref in faidx_reader_create to the decrement in faidx_meta_destroy.
ReferencesIndex(t) ==
  \/ reader[t] = "open"
  \/ reader[t] = "alloc" /\ pc[t] \in {"c_open", "d_lock", "d_dec"}
  \/ reader[t] = "closing" /\ pc[t] \in {"d_lock", "d_dec"}

OpenReaders == {t \in Threads : reader[t] = "open"}
Holders     == SumHeld(Threads) + Cardinality(OpenReaders)
Quiescent   == \A t \in Threads : pc[t] = "idle"
NoHolder    == \A t \in Threads : held[t] = 0 /\ reader[t] # "open"

C2_DestroyAnyTime ==
  /\ ~uaf
  /\ \A t \in Threads : ReferencesIndex(t) => nfree = 0

C4_RefCountCounts ==
  Quiescent => /\ ref_count = Holders
               /\ Holders > 0 => nfree = 0

\* every thread has created a reader and the loader still holds its reference
C4_Witness ==
  /\ Quiescent
  /\ \A t \in Threads : reader[t] = "open"
  /\ held[1] = 1
  /\ ref_count = NThreads + 1

\* -- the fetch claims: the state after one fetch

Val     == meta.hash[KnownName]
Known   == last.name = KnownName
Valid   == Val.line_blen >= 1 /\ Val.line_len > Val.line_blen
Whole   == fsize = FullSize(Val, meta.format)
EnvOk   == last.env = NoEnv
Success == last.res.ptr # "NULL"
Bytes(res) == SubSeq(res.buf, 1, res.len)

\* strlen of the returned buffer
RECURSIVE StrLenFrom(_, _)
StrLenFrom(buf, i) ==
  IF i > Len(buf) THEN 0 - 1
  ELSE IF buf[i] = NUL THEN i - 1
  ELSE StrLenFrom(buf, i + 1)

SameResult(r1, r2) ==
  /\ r1.ptr = r2.ptr
  /\ r1.len = r2.len
  /\ r1.ptr # "NULL" => Bytes(r1) = Bytes(r2)

\* C5: for a valid descriptor and 0 <= b <= e < len, a successful fetch_seq
\* returns length e - b + 1 and exactly the payload bytes b..e, each taken
\* from offset seq_offset + (k / line_blen) * line_len + k % line_blen, none
\* of them a terminator; on a whole file with no outside failure it succeeds.
C5_CoordinateCorrectness ==
  (last.op = "seq" /\ Known /\ Valid
     /\ 0 <= last.beg /\ last.beg <= last.end /\ last.end < Val.len) =>
    /\ (EnvOk /\ Whole) => Success
    /\ Success =>
         /\ last.res.len = last.end - last.beg + 1
         /\ Bytes(last.res) =
              [i \in 1..(last.end - last.beg + 1) |->
                 PhysOff(Val, Val.seq_offset, last.beg + i - 1)]
         /\ \A i \in 1..last.res.len :
              (last.res.buf[i] - Val.seq_offset) % Val.line_len < Val.line_blen

\* a fetch that starts inside a line and takes the rest of it, a full line and
\* part of a third
C5_Witness ==
  /\ last.op = "seq" /\ Known /\ Valid /\ Success
  /\ 0 <= last.beg /\ last.end < Val.len
  /\ last.res.len >= 2 * Val.line_blen
  /\ Val.line_blen > 1 /\ last.beg % Val.line_blen # 0

\* C6: for e >= len - 1 and every b, fetch_seq(s, b, e) returns what
\* fetch_seq(s, b, len - 1) returns (stated for the sequences that are not
\* empty).
C6_ClampIdempotence ==
  (last.op = "seq" /\ Known /\ Valid /\ Val.len > 0
     /\ last.end >= Val.len - 1) =>
    SameResult(last.res,
               faidx_reader_fetch_seq(meta, fsize, last.pos0, last.name,
                                      last.beg, Val.len - 1, last.env))

\* C7: fetch_seq(s, b, b - 1) succeeds with zero bytes and length 0 (stated
\* for the sequences that are not empty, on a whole file).
C7_EmptyRange ==
  (last.op = "seq" /\ Known /\ Valid /\ Val.len > 0 /\ EnvOk /\ Whole
     /\ last.end = last.beg - 1) =>
    Success /\ last.res.len = 0

\* C8: with begin >= len and end >= begin, fetch_seq on a known sequence
\* (valid descriptor, seek and allocation not failing) returns a non-NULL
\* buffer holding only the NUL, and length 0.
C8_BeginPastEnd ==
  (last.op = "seq" /\ Known /\ Valid /\ EnvOk
     /\ last.beg >= Val.len /\ last.end >= last.beg) =>
    /\ Success
    /\ last.res.len = 0
    /\ last.res.buf[1] = NUL

C8_Witness ==
  /\ last.op = "seq" /\ Known /\ Valid /\ EnvOk
  /\ Val.len > 0 /\ last.beg > Val.len /\ last.end > last.beg
  /\ Success /\ last.res.len = 0

\* C9: the pointer is NULL exactly when the length is negative; the length is
\* -2 exactly for a name that is not in the index or fetch_qual on FASTA; it
\* is -1 for bad geometry, a failed seek, a failed allocation and a short
\* read, and only for these; otherwise it is the number of bytes in the buffer.
C9_ErrorThroughLength ==
  last.op # "none" =>
    LET res == last.res
        noSeq == ~Known \/ (last.op = "qual" /\ meta.format # FAI_FASTQ)
    IN  /\ (res.ptr = "NULL") <=> (res.len < 0)
        /\ res.len >= 0 - 2
        /\ (res.len = 0 - 2) <=> noSeq
        /\ (~noSeq /\ (Val.line_blen = 0 \/ ~EnvOk)) => res.len = 0 - 1
        /\ (res.len = 0 - 1 /\ Val.line_blen > 0 /\ EnvOk) =>
             res.ops >= 2 /\ res.pos >= fsize
        /\ res.len >= 0 =>
             /\ StrLenFrom(res.buf, 1) = res.len
             /\ \A i \in 1..res.len : res.buf[i] >= 0

\* a short read: the file ends inside the requested range
C9_Witness ==
  /\ last.op = "seq" /\ Known /\ Valid /\ EnvOk /\ ~Whole
  /\ 0 <= last.beg /\ last.beg <= last.end /\ last.end < Val.len
  /\ last.res.ptr = "NULL" /\ last.res.len = 0 - 1

\* C10: fetch_qual on a FASTA index returns NULL and length -2 for every name
\* and range, and neither seeks nor reads on the reader's decoder.
C10_QualOnFasta ==
  (last.op = "qual" /\ meta.format = FAI_FASTA) =>
    /\ last.res.ptr = "NULL"
    /\ last.res.len = 0 - 2
    /\ last.res.ops = 0
    /\ pos[last.rdr] = last.pos0

C10_Witness ==
  /\ last.op = "qual" /\ meta.format = FAI_FASTA /\ Known /\ Valid
  /\ 0 <= last.beg /\ last.beg <= last.end /\ last.end < Val.len
  /\ last.res.len = 0 - 2

\* The index with every descriptor's seq_offset replaced by its qual_offset.
QualAsSeq(m) ==
  [m EXCEPT !.hash = [c \in DOMAIN m.hash |->
                        [m.hash[c] EXCEPT !.seq_offset = m.hash[c].qual_offset]]]

\* C11: on a FASTQ index fetch_qual(name, b, e) returns what fetch_seq(name,
\* b, e) returns on the index whose seq_offset is the qual_offset: the same
\* pointer, length, error outcome, decoder operations and final position; for
\* 0 <= b <= e < len a successful call returns the e - b + 1 bytes of the
\* quality payload at positions b..e.
C11_QualLikeSeq ==
  (last.op = "qual" /\ meta.format = FAI_FASTQ) =>
    /\ last.res = faidx_reader_fetch_seq(QualAsSeq(meta), fsize, last.pos0,
                                         last.name, last.beg, last.end,
                                         last.env)
    /\ (Known /\ Valid /\ Success
          /\ 0 <= last.beg /\ last.beg <= last.end /\ last.end < Val.len) =>
         /\ last.res.len = last.end - last.beg + 1
         /\ Bytes(last.res) =
              [i \in 1..(last.end - last.beg + 1) |->
                 PhysOff(Val, Val.qual_offset, last.beg + i - 1)]

\* a quality fetch over more than one line of the quality payload
C11_Witness ==
  /\ last.op = "qual" /\ meta.format = FAI_FASTQ /\ Known /\ Valid /\ Success
  /\ last.beg = 0 /\ last.end = Val.len - 1
  /\ last.res.len = Val.len /\ Val.len > Val.line_blen
  /\ last.res.buf[1] = Val.qual_offset /\ Val.qual_offset > Val.seq_offset

\* The sizes of the reads fai_retrieve issues for payload positions beg..end-1:
\* one read when the range lies in one line, else the rest of the first line
\* with its terminator, the full lines, and the final partial line.
ReadPlan(val, beg, end) ==
  LET remaining == end - beg
      first  == val.line_blen - (beg % val.line_blen)
      rest   == remaining - first
      nfull  == (rest - 1) \div val.line_blen
  IN  IF remaining <= first THEN <<remaining>>
      ELSE <<val.line_len - (beg % val.line_blen)>>
             \o [i \in 1..nfull |-> val.line_len]
             \o <<rest - nfull * val.line_blen>>

RECURSIVE PlanSum(_, _)
PlanSum(plan, k) == IF k = 0 THEN 0 ELSE plan[k] + PlanSum(plan, k - 1)

\* the steps of the plan that the file is too short for
ShortSteps(plan, avail) == {k \in 1..Len(plan) : PlanSum(plan, k) > avail}

BaseOffset == IF last.op = "qual" THEN Val.qual_offset ELSE Val.seq_offset
InRange    == 0 <= last.beg /\ last.beg <= last.end /\ last.end < Val.len
LastPlan   == ReadPlan(Val, last.beg, last.end + 1)
LastAvail  == Max(0, fsize - PhysOff(Val, BaseOffset, last.beg))
LastShort  == ShortSteps(LastPlan, LastAvail)
FirstShort == CHOOSE k \in LastShort : \A j \in LastShort : k <= j

\* C12: when the file ends before the end of some read of the plan (the single
\* read, the first line, a full line or the final partial line), the fetch
\* returns NULL and length -1, hands no buffer back, and the decoder has done
\* the seek and the reads up to the short one and no more; it stands at the
\* end of the file. When no read is short the fetch succeeds.
C12_ShortRead ==
  (last.op \in {"seq", "qual"} /\ Known /\ Valid /\ EnvOk /\ InRange
     /\ (last.op = "qual" => meta.format = FAI_FASTQ)) =>
    IF LastShort # {}
      THEN /\ last.res.ptr = "NULL"
           /\ last.res.len = 0 - 1
           /\ last.res.buf = <<>>
           /\ last.res.ops = 1 + FirstShort
           /\ pos[last.rdr] =
                Max(fsize, PhysOff(Val, BaseOffset, last.beg)
                             + PlanSum(LastPlan, FirstShort - 1))
      ELSE /\ Success
           /\ last.res.ops = 1 + Len(LastPlan)

\* the file ends inside a full line of the loop: the first line was read
\* whole, the short read is neither the first nor the last of the plan
C12_Witness ==
  /\ last.op = "seq" /\ Known /\ Valid /\ EnvOk /\ InRange
  /\ LastShort # {}
  /\ FirstShort > 1 /\ FirstShort < Len(LastPlan)
  /\ last.res.ptr = "NULL" /\ last.res.len = 0 - 1

\* The range handed to fai_retrieve by the last call: the clamped range of a
\* fetch, the range itself of a direct call.
Handed ==
  IF last.op = "retrieve" THEN <<last.beg, last.end>>
  ELSE LET be == faidx_adjust_position(Val, 1, last.beg, last.end)
       IN  <<be[1], be[2] + 1>>

\* C13: a descriptor with line_blen = 0, or a range 0 <= beg <= end whose size
\* end - beg does not fit the size type, makes the call return NULL and length
\* -1 with no seek, no read and no allocation: the decoder is where it was.
\* No call divides by a zero line_blen.
C13_BadGeometry ==
  (last.op \in {"retrieve", "seq"} /\ Known) =>
    /\ (Val.line_blen = 0
          \/ (last.op = "retrieve" /\ last.beg <= last.end
                /\ last.end - last.beg > SIZE_MAX)) =>
         /\ last.res.ptr = "NULL"
         /\ last.res.len = 0 - 1
         /\ last.res.ops = 0
         /\ pos[last.rdr] = last.pos0
    /\ last.res.ops > 0 =>
         /\ Val.line_blen > 0
         /\ Handed[2] - Handed[1] >= 0
         /\ Handed[2] - Handed[1] <= SIZE_MAX

\* a range one larger than the size type holds, on a valid descriptor
C13_Witness ==
  /\ last.op = "retrieve" /\ Valid /\ EnvOk
  /\ last.beg > 0 /\ last.end - last.beg = SIZE_MAX + 1
  /\ last.res.ptr = "NULL" /\ last.res.len = 0 - 1 /\ last.res.ops = 0

\* C14: a fetch_seq that has returned on any reader, after any earlier fetches
\* on that reader and with fetches on the other readers in between its seek
\* and its reads, has returned what the same call returns on a fresh reader of
\* the same index and file: the same pointer, length and bytes. Each decoder
\* stands where the last fetch of its own reader left it, whatever the other
\* readers did since.
C14_ReadDeterminism ==
  \A r \in Readers :
    /\ call[r].st = "done" =>
         /\ SameResult(call[r].res,
                       faidx_reader_fetch_seq(meta, fsize, 0, call[r].name,
                                              call[r].beg, call[r].end,
                                              call[r].env))
         /\ pos[r] = call[r].res.pos
    /\ call[r].st = "seeked" =>
         pos[r] = PhysOff(call[r].val, call[r].val.seq_offset, call[r].be[1])
    /\ call[r].st = "idle" => pos[r] = 0

\* reader 1 has returned the whole sequence while reader 2, which had fetched
\* before, stands seeked elsewhere inside another fetch
C14_Witness ==
  /\ call[1].st = "done" /\ call[1].res.ptr # "NULL"
  /\ call[1].res.len = MaxLen /\ pos[1] > 0
  /\ call[2].st = "seeked" /\ call[2].beg > 0
  /\ pos[2] # pos[1] /\ pos[2] > 0

\* -- the query claims: the state after one query

\* the names of the .fai in file order, and whether nm is one of them
FileNames   == ld.names
InFile(nm)  == \E i \in 1..Len(FileNames) : FileNames[i] = nm

\* C18: for an index loaded from a .fai with n sequences: nseq = n, and 0 for
\* a NULL index; iseq(i) is the i-th name of the file for 0 <= i < n and NULL
\* otherwise; has_seq is 1 and seq_len the record's length for the names of
\* the file, 0 and -1 for every other name; and for every i in range
\* has_seq(iseq(i)) = 1, seq_len(iseq(i)) is the length of the i-th record and
\* the descriptor stored under iseq(i) has id = i.
C18_QuerySurface ==
  /\ last.op = "nseq" =>
       last.res = IF last.null THEN 0 ELSE Len(FileNames)
  /\ last.op = "iseq" =>
       last.res = IF ~last.null /\ 0 <= last.arg /\ last.arg < Len(FileNames)
                    THEN <<FileNames[last.arg + 1]>> ELSE <<>>
  /\ last.op = "has_seq" =>
       last.res = IF ~last.null /\ last.arg # <<>> /\ InFile(last.arg[1])
                    THEN 1 ELSE 0
  /\ last.op = "seq_len" =>
       last.res = IF ~last.null /\ last.arg # <<>> /\ InFile(last.arg[1])
                    THEN LenOf(last.arg[1]) ELSE 0 - 1
  /\ ld.state = "ok" =>
       \A i \in 0..(Len(FileNames) - 1) :
         LET nm == faidx_meta_iseq(<<meta>>, i)
         IN  /\ nm = <<FileNames[i + 1]>>
             /\ faidx_meta_has_seq(<<meta>>, nm) = 1
             /\ faidx_meta_seq_len(<<meta>>, nm) = LenOf(FileNames[i + 1])
             /\ meta.hash[nm[1]].id = i

\* three sequences, not in the order of the pool: the name at position 1
C18_Witness ==
  /\ Len(FileNames) = 3 /\ FileNames[1] # NamePool[1]
  /\ last.op = "iseq" /\ ~last.null /\ last.arg = 1
  /\ last.res = <<FileNames[2]>>

\* C19: faidx_meta_parse_region on a region text of the grammar whose name is
\* in the index succeeds, gives the id of the name and begin and end with
\* 0 <= begin <= end <= length of that sequence; on a name that is not in the
\* index it returns NULL.
C19_ParseRegionClamps ==
  last.op = "parse_region" =>
    IF InFile(last.arg[1])
      THEN /\ last.res.ok
           /\ last.res.tid = meta.hash[last.arg[1]].id
           /\ 0 <= last.res.beg
           /\ last.res.beg <= last.res.end
           /\ last.res.end <= LenOf(last.arg[1])
      ELSE ~last.res.ok


\* ------------------------------------------------------------ immutability

\* C15: index immutability. No step after the load changes a field of the
\* index other than ref_count (the teardown only releases the storage), and a
\* fetch or query leaves the fields, ref_count and the mutex as they were: the
\* queries run without the mutex, held by another thread or not.
C15_IndexImmutable ==
  [][/\ meta' = meta
     /\ last' # last => /\ ref_count' = ref_count
                        /\ mutex' = mutex]_vars

\* A query returned while another thread held the mutex inside faidx_meta_ref
\* or faidx_meta_destroy, on an index with an open reader.
C15_Witness ==
  /\ last.op \in {"nseq", "iseq", "seq_len", "has_seq", "parse_region"}
  /\ mutex # 0
  /\ ref_count >= 2
  /\ \E r \in Readers : reader[r] = "open"

\* ------------------------------------------------ the block-offset table

C17_TableIffCompressed ==
  ld.state = "ok" => (meta.bgzf_idx # "NULL" <=> meta.is_bgzf)

\* ------------------------------------------------------------ file handles

\* C20: file-handle accounting. Once faidx_meta_load has returned, with an
\* index or with NULL, no file handle of the load is open; a reader has an
\* open decoder handle exactly while it is live (created and not yet in
\* faidx_reader_destroy), so the open decoder handles are as many as the live
\* readers, and a failed create leaves none.
C20_HandleAccounting ==
  /\ ld.state # "none" => ld.handles = 0
  /\ \A t \in Threads : dec[t].open <=> reader[t] = "open"
  /\ Cardinality({r \in Readers : dec[r].open}) = Cardinality(OpenReaders)

\* After a successful load one reader is open and another create has failed
\* at the open and is about to free its reader.
C20_Witness ==
  /\ ld.state = "ok" /\ ld.handles = 0
  /\ \E t, u \in Threads :
       /\ reader[t] = "open" /\ dec[t].open
       /\ pc[u] = "c_free" /\ ~dec[u].open

\* ------------------------------------------------------ the returned buffer

\* the base offset the fetch recorded in last reads from
LastOffset == IF last.op = "qual" THEN Val.qual_offset ELSE Val.seq_offset

\* C23: on every successful fetch_seq and fetch_qual the buffer holds length
\* bytes of the file, none of them a line terminator, none left unwritten,
\* and the NUL at index length, on the single-line path, the multi-line path
\* and for the empty result.
C23_NulTerminated ==
  (last.op \in {"seq", "qual"} /\ Success) =>
    LET res == last.res
    IN  /\ res.len >= 0
        /\ Len(res.buf) >= res.len + 1
        /\ res.buf[res.len + 1] = NUL
        /\ \A i \in 1..res.len :
              /\ res.buf[i] >= LastOffset
              /\ res.buf[i] < fsize
              /\ (res.buf[i] - LastOffset) % Val.line_len < Val.line_blen

\* a quality fetch within one line that starts after the line's first byte
C23_Witness ==
  /\ last.op = "qual" /\ Known /\ Success
  /\ last.res.len >= 1
  /\ last.res.ops = 2
  /\ last.beg > 0 /\ last.beg % Val.line_blen # 0
  /\ last.res.buf[last.res.len + 1] = NUL

\* ------------------------------------------------- the range that is fetched

\* the clamped <<begin, end_exclusive>> the fetch recorded in last hands to
\* fai_retrieve
LastClamped ==
  LET be == faidx_adjust_position(Val, 1, last.beg, last.end)
  IN  <<be[1], be[2] + 1>>

\* C29: for a known sequence of any length L and any begin and end, the range
\* handed to fai_retrieve satisfies 0 <= begin <= end_exclusive <= L, and a
\* successful fetch returns at most L bytes, each the byte of a payload
\* position in [0, L) of that sequence.
C29_WithinSequence ==
  (last.op \in {"seq", "qual"} /\ Known) =>
    /\ 0 <= LastClamped[1]
    /\ LastClamped[1] <= LastClamped[2]
    /\ LastClamped[2] <= Val.len
    /\ Success =>
         /\ last.res.len <= Val.len
         /\ \A i \in 1..last.res.len :
              \E k \in 0..(Val.len - 1) :
                last.res.buf[i] = PhysOff(Val, LastOffset, k)

\* ------------------------------------------------------------ buffer safety

\* C28: for every descriptor with line_len >= line_blen >= 1 and every range
\* a fetch hands to fai_retrieve, no read (first partial line, full lines,
\* final partial line, single read) and no NUL write leaves the buffer
\* allocated as (end - begin) + (line_len - line_blen) + 1 bytes, and the
\* count of remaining bytes starts and stays at zero or above.
C28_BufferSafety ==
  (last.op \in {"seq", "qual"} /\ Known
     /\ Val.line_blen >= 1 /\ Val.line_len >= Val.line_blen) =>
    /\ ~last.res.oob
    /\ LastClamped[2] - LastClamped[1] >= 0
    /\ last.res.ops >= 2 =>
         \A k \in 1..Len(ReadPlan(Val, LastClamped[1], LastClamped[2])) :
           ReadPlan(Val, LastClamped[1], LastClamped[2])[k] >= 0

\* ---------------------------------------------------------- the lock and the count

\* an explicit faidx_meta_destroy that has not yet decremented
PendingRelease(t) == pc[t] \in {"d_lock", "d_dec"} /\ ret[t] = "idle"

\* C24: ref_count changes only in a step of the thread that holds the mutex,
\* inside faidx_meta_ref (by +1) or faidx_meta_destroy (by -1, and the
\* decision to tear down is the test of the value that step leaves), and the
\* step releases the mutex; until the teardown the count is exactly the
\* references handed out less those given back, whatever the interleaving of
\* the increments and decrements.
C24_CountUnderLock ==
  /\ [](nfree = 0 =>
          ref_count = SumHeld(Threads)
                        + Cardinality({t \in Threads : ReferencesIndex(t)})
                        + Cardinality({t \in Threads : PendingRelease(t)}))
  /\ [][ref_count' # ref_count =>
          /\ mutex # 0
          /\ mutex' = 0
          /\ pc[mutex] \in {"ref_inc", "d_dec"}
          /\ pc'[mutex] # pc[mutex]
          /\ \A u \in Threads \ {mutex} : pc'[u] = pc[u]
          /\ pc[mutex] = "ref_inc" => ref_count' = ref_count + 1
          /\ pc[mutex] = "d_dec" =>
               /\ ref_count' = ref_count - 1
               /\ should_free'[mutex] = (ref_count' <= 0)
               /\ (pc'[mutex] = "d_free") = (ref_count' <= 0)]_vars

\* one thread is inside the increment with the mutex while another waits for
\* it to decrement
C24_Witness ==
  \E t, u \in Threads :
    /\ t # u
    /\ mutex = t /\ pc[t] = "ref_inc"
    /\ pc[u] = "d_lock"
    /\ ref_count >= 2

Share(t) ==
  held[t] + (IF ReferencesIndex(t) THEN 1 ELSE 0)
          + (IF PendingRelease(t) THEN 1 ELSE 0)

RECURSIVE SumShare(_)
SumShare(S) ==
  IF S = {} THEN 0
  ELSE LET t == CHOOSE x \in S : TRUE IN Share(t) + SumShare(S \ {t})

C27_FailedLoadReleases ==
  ld.state \in {"failed", "fault"} =>
    /\ ld.state = "failed"
    /\ ld.heap.leaked = {}
    /\ ld.heap.twice = {}
    /\ ld.heap.wild = {}
    /\ ld.handles = 0


\* ------------------------------------------------ records that share a name

DuplicateRecords ==
  \E i, j \in 1..Len(ld.recs) : i # j /\ ld.recs[i] = ld.recs[j]

\* C22: faidx_meta_load fails when two records of the index share a name: no
\* load of such an index returns an index, be it one where the later record
\* was skipped or one where two ids carry the same name.
C22_DuplicateNameFails ==
  ld.state = "ok" => ~DuplicateRecords


\* ------------------------------------------------------- main of the drivers

WorkerFinished(w) == pc[w] \in {"unstarted", "done", "joined", "exited"}

MainReleasing ==
  pc[MainThread] \in {"d_lock", "d_dec", "d_free", "m_exit"}

\* C30: on every path through main of the drivers, the path of a failed
\* pthread_create included, main releases its reference only when every worker
\* it started has returned, and no worker touches an index already freed.
C30_ReleaseAfterWorkers ==
  /\ MainReleasing => \A w \in Threads : WorkerFinished(w)
  /\ ~uaf


\* ------------------------------------------------- the compressed source

\* the fetch reader r has returned from, made on the uncompressed file
PlainFetch(r) ==
  faidx_reader_fetch_seq(meta, fsize, 0, call[r].name, call[r].beg,
                         call[r].end, call[r].env)

\* the file offsets of the payload bytes of the clamped range of r's fetch
PayloadOffsets(r) ==
  [j \in 1..(call[r].be[2] + 1 - call[r].be[1]) |->
     PhysOff(call[r].val, call[r].val.seq_offset, call[r].be[1] + j - 1)]

\* C21: on a compressed source whose decoder resolves positions through the
\* block-offset table of its .gzi, every fetch returns the pointer, length,
\* bytes and error outcome of the same fetch on the uncompressed file, block
\* boundaries inside the range or not, and a successful fetch returns every
\* payload byte of its range.
C21_BgzfEquivalence ==
  \A r \in Readers :
    (meta.is_bgzf /\ dec[r].idx # "NULL" /\ call[r].st = "done") =>
      /\ SameResult(call[r].res, PlainFetch(r))
      /\ call[r].res.ptr # "NULL" => Bytes(call[r].res) = PayloadOffsets(r)

\* a fetch on the compressed source that began inside a block that is not the
\* first and returned bytes of more than one block
C21_Witness ==
  \E r \in Readers :
    /\ meta.is_bgzf /\ dec[r].idx # "NULL" /\ call[r].st = "done"
    /\ call[r].res.ptr # "NULL" /\ call[r].res.len >= 2
    /\ LET b == Bytes(call[r].res)
       IN  /\ b[1] >= BlockLen /\ b[1] % BlockLen # 0
           /\ b[1] \div BlockLen # b[Len(b)] \div BlockLen

====
